---- MODULE Spec2Model ----
(***************************************************************************)
(* Model of the ai-marketing repository: the provider-agnostic generation  *)
(* adapter (src/ai/ai_generator.py) with its JSON extraction, and the      *)
(* ad-platform tool layer with its natural-language router                 *)
(* (src/google_ads/mcp_server.py).                                         *)
(*                                                                         *)
(* Texts are sequences of one-character strings, so that strip, startswith,*)
(* slicing, the regular-expression search and json.loads are computed on   *)
(* characters exactly as the code computes them.                           *)
(***************************************************************************)
EXTENDS Integers, Sequences, FiniteSets, TLC

(***************************************************************************)
(* Bounds of the model.                                                    *)
(***************************************************************************)
\* longest body, in pieces, of a backend response drawn by InitExtract
MaxPieces == 4

(***************************************************************************)
(* Text primitives (Python str methods).                                   *)
(***************************************************************************)
\* str.strip() removes these; json.loads skips these between tokens
Whitespace == {" ", "\n", "\t", "\r"}

\* Python slice s[n:]
DropFirst(s, n) == IF n >= Len(s) THEN << >> ELSE SubSeq(s, n + 1, Len(s))

\* Python slice s[:-n], n > 0
DropLast(s, n) == IF n >= Len(s) THEN << >> ELSE SubSeq(s, 1, Len(s) - n)

\* Python slice s[:n]
Prefix(s, n) == IF n >= Len(s) THEN s ELSE SubSeq(s, 1, n)

StartsWith(s, p) == Len(p) <= Len(s) /\ SubSeq(s, 1, Len(p)) = p

EndsWith(s, p) == Len(p) <= Len(s) /\ SubSeq(s, Len(s) - Len(p) + 1, Len(s)) = p

RECURSIVE LStrip(_)
LStrip(s) == IF s # << >> /\ Head(s) \in Whitespace THEN LStrip(Tail(s)) ELSE s

RECURSIVE RStrip(_)
RStrip(s) ==
    IF s # << >> /\ s[Len(s)] \in Whitespace THEN RStrip(DropLast(s, 1)) ELSE s

\* str.strip()
Strip(s) == RStrip(LStrip(s))

\* t is s[:n] for some n
IsPrefixOf(t, s) == Len(t) <= Len(s) /\ SubSeq(s, 1, Len(t)) = t

(***************************************************************************)
(* json.loads on character sequences.  A parse step returns                *)
(* [ok, val, next]: next is the index after the consumed text.  Values are *)
(* tagged tuples: <<"num", digits>>, <<"str", chars>>, <<"arr", elements>>,*)
(* <<"obj", pairs>> with pairs a sequence of <<key, value>>, one per key   *)
(* (a repeated key keeps the last value, as a Python dict does).           *)
(* The literals true, false, null are not in the alphabet of the model.    *)
(***************************************************************************)
Digits == {"0", "1", "2", "3", "4", "5", "6", "7", "8", "9"}

ParseFail == [ok |-> FALSE, val |-> << >>, next |-> 0]

RECURSIVE SkipWS(_, _)
SkipWS(s, i) == IF i <= Len(s) /\ s[i] \in Whitespace THEN SkipWS(s, i + 1) ELSE i

\* index of the closing quote of a string whose content starts at i, or 0
\* (0 also for a raw control character, which the strict decoder rejects)
RECURSIVE StringEnd(_, _)
StringEnd(s, i) ==
    IF i > Len(s) THEN 0
    ELSE IF s[i] = "\"" THEN i
    ELSE IF s[i] \in {"\n", "\t", "\r", "\\"} THEN 0
    ELSE StringEnd(s, i + 1)

\* s[i] is the opening quote
ParseString(s, i) ==
    LET e == StringEnd(s, i + 1)
    IN  IF e = 0 THEN ParseFail
        ELSE [ok |-> TRUE, val |-> <<"str", SubSeq(s, i + 1, e - 1)>>, next |-> e + 1]

RECURSIVE DigitsEnd(_, _)
DigitsEnd(s, i) == IF i <= Len(s) /\ s[i] \in Digits THEN DigitsEnd(s, i + 1) ELSE i

\* integer part of NUMBER_RE: 0 | [1-9][0-9]*
ParseNumber(s, i) ==
    LET e == IF s[i] = "0" THEN i + 1 ELSE DigitsEnd(s, i)
    IN  [ok |-> TRUE, val |-> <<"num", SubSeq(s, i, e - 1)>>, next |-> e]

\* dict[key] = value
RECURSIVE DictSet(_, _, _)
DictSet(pairs, k, v) ==
    IF pairs = << >> THEN << <<k, v>> >>
    ELSE IF Head(pairs)[1] = k THEN << <<k, v>> >> \o Tail(pairs)
    ELSE << Head(pairs) >> \o DictSet(Tail(pairs), k, v)

RECURSIVE ParseValue(_, _)
RECURSIVE ParseMembers(_, _, _)
RECURSIVE ParseElements(_, _, _)

\* members of an object from the key at or after i; acc are the pairs so far
ParseMembers(s, i, acc) ==
    LET k == SkipWS(s, i)
    IN  IF k > Len(s) \/ s[k] # "\"" THEN ParseFail
        ELSE LET key == ParseString(s, k)
             IN  IF ~key.ok THEN ParseFail
                 ELSE LET c == SkipWS(s, key.next)
                      IN  IF c > Len(s) \/ s[c] # ":" THEN ParseFail
                          ELSE LET v == ParseValue(s, SkipWS(s, c + 1))
                               IN  IF ~v.ok THEN ParseFail
                                   ELSE LET e == SkipWS(s, v.next)
                                            acc2 == DictSet(acc, key.val[2], v.val)
                                        IN  IF e > Len(s) THEN ParseFail
                                            ELSE IF s[e] = "}"
                                                 THEN [ok |-> TRUE, val |-> <<"obj", acc2>>, next |-> e + 1]
                                            ELSE IF s[e] = ","
                                                 THEN ParseMembers(s, e + 1, acc2)
                                            ELSE ParseFail

\* elements of an array from the value at or after i
ParseElements(s, i, acc) ==
    LET v == ParseValue(s, SkipWS(s, i))
    IN  IF ~v.ok THEN ParseFail
        ELSE LET e == SkipWS(s, v.next)
                 acc2 == Append(acc, v.val)
             IN  IF e > Len(s) THEN ParseFail
                 ELSE IF s[e] = "]"
                      THEN [ok |-> TRUE, val |-> <<"arr", acc2>>, next |-> e + 1]
                 ELSE IF s[e] = "," THEN ParseElements(s, e + 1, acc2)
                 ELSE ParseFail

\* scan_once of the decoder, at index i
ParseValue(s, i) ==
    IF i > Len(s) THEN ParseFail
    ELSE IF s[i] = "\"" THEN ParseString(s, i)
    ELSE IF s[i] = "{"
         THEN LET k == SkipWS(s, i + 1)
              IN  IF k <= Len(s) /\ s[k] = "}"
                  THEN [ok |-> TRUE, val |-> <<"obj", << >> >>, next |-> k + 1]
                  ELSE ParseMembers(s, i + 1, << >>)
    ELSE IF s[i] = "["
         THEN LET k == SkipWS(s, i + 1)
              IN  IF k <= Len(s) /\ s[k] = "]"
                  THEN [ok |-> TRUE, val |-> <<"arr", << >> >>, next |-> k + 1]
                  ELSE ParseElements(s, i + 1, << >>)
    ELSE IF s[i] \in Digits THEN ParseNumber(s, i)
    ELSE ParseFail

\* json.loads(s): one value between optional whitespace, nothing after it
JsonLoads(s) ==
    LET v == ParseValue(s, SkipWS(s, 1))
    IN  IF v.ok /\ SkipWS(s, v.next) = Len(s) + 1
        THEN [ok |-> TRUE, val |-> v.val]
        ELSE [ok |-> FALSE, val |-> << >>]

(***************************************************************************)
(* generate_json, the extraction half (ai_generator.py lines 256-278).     *)
(***************************************************************************)
\* the backquote character (a TLA+ string cannot hold it)
BQ == "bq"

Fence == <<BQ, BQ, BQ>>

FenceJson == <<BQ, BQ, BQ, "j", "s", "o", "n">>

\* length of the response prefix carried by the ValueError
ErrorPrefixLen == 200

\* StripFences cutting six characters for the seven of the json fence
StripFencesShortCut(response) ==
    LET r1 == Strip(response)
        r2 == IF StartsWith(r1, FenceJson) THEN DropFirst(r1, 6) ELSE r1
        r3 == IF StartsWith(r2, Fence) THEN DropFirst(r2, 3) ELSE r2
    IN  IF EndsWith(r3, Fence) THEN DropLast(r3, 3) ELSE r3

\* the value of the local variable response when json.loads is called:
\* strip, then the three fence tests in sequence, each on the result of the
\* one before
StripFences(response) ==
    LET r1 == Strip(response)
        r2 == IF StartsWith(r1, FenceJson) THEN DropFirst(r1, 7) ELSE r1
        r3 == IF StartsWith(r2, Fence) THEN DropFirst(r2, 3) ELSE r2
    IN  IF EndsWith(r3, Fence) THEN DropLast(r3, 3) ELSE r3

RECURSIVE FirstIndexOf(_, _, _)
FirstIndexOf(s, c, i) ==
    IF i > Len(s) THEN 0 ELSE IF s[i] = c THEN i ELSE FirstIndexOf(s, c, i + 1)

RECURSIVE LastIndexOf(_, _, _)
LastIndexOf(s, c, i) ==
    IF i < 1 THEN 0 ELSE IF s[i] = c THEN i ELSE LastIndexOf(s, c, i - 1)

\* RegexBraces without re.DOTALL: the match cannot cross a line break
RegexBracesOneLine(s) ==
    LET onLine(i, j) == \A k \in i..j : s[k] # "\n"
        starts == { i \in 1..Len(s) :
                      s[i] = "{" /\ \E j \in (i + 1)..Len(s) : s[j] = "}" /\ onLine(i, j) }
    IN  IF starts = {} THEN [found |-> FALSE, span |-> << >>]
        ELSE LET b == CHOOSE i \in starts : \A k \in starts : i <= k
                 ends == { j \in (b + 1)..Len(s) : s[j] = "}" /\ onLine(b, j) }
                 e == CHOOSE j \in ends : \A k \in ends : j >= k
             IN  [found |-> TRUE, span |-> SubSeq(s, b, e)]

\* re.search(r'\{.*\}', s, re.DOTALL): leftmost "{", greedy to the last "}"
RegexBraces(s) ==
    LET b == FirstIndexOf(s, "{", 1)
        e == LastIndexOf(s, "}", Len(s))
    IN  IF b # 0 /\ e > b
        THEN [found |-> TRUE, span |-> SubSeq(s, b, e)]
        ELSE [found |-> FALSE, span |-> << >>]

\* lines 256-278 on the text returned by generate
ExtractJSON(response) ==
    LET r == StripFences(response)
        direct == JsonLoads(Strip(r))
        m == RegexBraces(r)
        second == JsonLoads(m.span)
    IN  IF direct.ok
        THEN [status |-> "ok", stage |-> "direct", value |-> direct.val, msg |-> << >>]
        ELSE IF m.found /\ second.ok
        THEN [status |-> "ok", stage |-> "regex", value |-> second.val, msg |-> << >>]
        ELSE [status |-> "ValueError", stage |-> "none", value |-> << >>,
              msg |-> Prefix(r, ErrorPrefixLen)]

NotExtracted == [status |-> "pending", stage |-> "none", value |-> << >>, msg |-> << >>]

(***************************************************************************)
(* Backend responses for the extraction: prefix, body, suffix.             *)
(***************************************************************************)
Pieces ==
    { <<"{">>, <<"}">>, <<"\"", "a", "\"", ":">>, <<"\"", "a", "\"">>, <<"1">>,
      <<"\n">>, <<"x">> }

RECURSIVE Bodies(_)
Bodies(n) ==
    IF n = 0 THEN { << >> }
    ELSE LET shorter == Bodies(n - 1)
         IN  shorter \cup { b \o p : b \in shorter, p \in Pieces }

JsonFencePrefixes == { FenceJson, FenceJson \o <<"\n">> }

PlainFencePrefixes == { Fence, Fence \o <<"\n">> }

FenceSuffixes == { Fence, <<"\n">> \o Fence }

ProsePrefixes == { <<"o", "k", " ">>, <<" ">> }

ProseSuffixes == { <<" ", "o", "k">> }

Prefixes == { << >> } \cup JsonFencePrefixes \cup PlainFencePrefixes \cup ProsePrefixes

Suffixes == { << >> } \cup FenceSuffixes \cup ProseSuffixes


(***************************************************************************)
(* The generation adapter (ai_generator.py): generate, generate_json and   *)
(* the three domain operations, one invocation per behaviour.              *)
(***************************************************************************)
\* longest product_name, in pieces, of a fab_analysis given to generate_keywords
MaxNamePieces == 3

Providers == {"openai", "anthropic", "google", "ollama", "groq"}

\* values of self.model
ModelNames == {"gemini-2.0-flash", "gemini-2.5-pro", "gpt-4o-mini"}

Ops == {"generate", "analyze_with_fab", "generate_keywords", "generate_google_ads"}

\* temperatures, in tenths
DefaultTemperature == 7

Temperatures == {0, DefaultTemperature}

\* no temperature in the request: the backend's own default applies
NoTemperature == -1

\* messages of the exceptions a backend call can throw
BackendMessages == {"quota exceeded", "connection refused"}

NoError == [type |-> "none", msg |-> << >>]

NoResult == [status |-> "pending", error |-> NoError, value |-> <<"none">>, source |-> "none"]

NoResponse == [kind |-> "unset", text |-> << >>]

\* "No response generated"
NoResponseGenerated == <<"N", "o", " ", "r", "e", "s", "p", "o", "n", "s", "e", " ", "g", "e", "n", "e", "r", "a", "t", "e", "d">>

\* most operations invoked on one adapter
MaxInvocations == 2

\* texts a backend returns
SampleTexts ==
    { <<"{", "\"", "a", "\"", ":", "1", "}">>,
      FenceJson \o <<"\n">> \o <<"{", "\"", "a", "\"", ":", "1", "}">> \o <<"\n">> \o Fence,
      <<"o", "k", " ">> \o <<"{", "\"", "a", "\"", ":", "1", "}">>,
      <<"[", "1", ",", "1", "]">>,
      <<"x">> }

\* pieces of a product_name
NamePieces == { <<"A", "b", "c", "d">>, <<"a", "b", "c">>, <<" ">> }

RECURSIVE Names(_)
Names(n) ==
    IF n = 0 THEN { << >> }
    ELSE LET shorter == Names(n - 1)
         IN  shorter \cup { b \o p : b \in shorter, p \in NamePieces }

\* fab_analysis as far as generate_keywords reads it
FabAnalyses ==
    { [has_name |-> FALSE, product_name |-> << >>] }
        \cup { [has_name |-> TRUE, product_name |-> n] : n \in Names(MaxNamePieces) }

NoFab == [has_name |-> FALSE, product_name |-> << >>]

\* the fab_analysis arguments of operations that follow one another
RepeatFabAnalyses ==
    { NoFab, [has_name |-> TRUE, product_name |-> <<"A", "b", "c", "d", " ", "a", "b", "c">>] }

VARIABLES
    body,       \* the text t the backend meant to send
    pre,        \* what the backend put before it
    post,       \* what the backend put after it
    extracted,  \* outcome of the extraction on pre \o body \o post
    bare        \* outcome of the extraction on body alone

extractVars == <<body, pre, post, extracted, bare>>

VARIABLES
    provider,   \* self.provider
    model,      \* self.model
    op,         \* the operation invoked on the adapter
    fab,        \* the fab_analysis argument of generate_keywords
    pc,         \* where the invocation stands
    genCalls,   \* the calls of generate made so far, with their arguments
    genOutcomes, \* how each finished call of generate ended
    invocations, \* how many operations were invoked on the adapter
    sameAsPrevious, \* the invocation has the arguments of the one before it
    requests,   \* the backend requests issued so far in the invocation
    replies,    \* what the backends did with them
    firstError, \* _generate_google: the exception of the preferred model
    returned,   \* what generate returned
    jsonResult, \* what generate_json returned or raised
    result      \* what the operation returned or raised

genVars ==
    <<provider, model, op, fab, pc, genCalls, genOutcomes, invocations, sameAsPrevious,
      requests, replies, firstError, returned, jsonResult, result>>

(***************************************************************************)
(* The ad-platform tool layer (mcp_server.py): inputs and state.           *)
(***************************************************************************)
\* longest result of a client call, in rows
MaxRows == 2

\* longest natural-language request, in phrases
MaxPhrases == 2

\* the keys of self.tools, lines 39-72
ToolRegistry ==
    { "list_accounts", "get_account_info", "get_account_summary",
      "get_campaigns", "get_campaign_performance", "get_campaign_budget",
      "get_ad_groups",
      "get_keywords", "get_search_terms", "get_negative_keywords",
      "get_ads",
      "get_geographic_performance", "get_device_performance",
      "diagnose_low_quality_scores", "diagnose_high_cost_campaigns", "find_disapproved_ads",
      "run_custom_query" }

\* the names in the list that get_available_tools returns, lines 76-143
AvailableToolNames ==
    << "list_accounts", "get_account_info", "get_account_summary", "get_campaigns",
       "get_campaign_performance", "get_keywords", "get_search_terms",
       "diagnose_low_quality_scores", "diagnose_high_cost_campaigns", "run_custom_query" >>

\* str() of a campaign id; "None" is str(None), the id of a row without campaign
CampaignIds == {"1", "2", "None"}

\* a row of _row_to_dict, as far as the tools read it
Rows == { [campaign_id |-> c] : c \in CampaignIds }

RECURSIVE RowLists(_)
RowLists(n) ==
    IF n = 0 THEN { << >> }
    ELSE LET shorter == RowLists(n - 1)
         IN  shorter \cup { Append(l, r) : l \in shorter, r \in Rows }

ClientMessages == {"PERMISSION_DENIED"}

\* what a call of the client does: GoogleAdsClient.search and the other two
\* methods re-raise every exception (ads_client.py lines 101-106, 148-153,
\* 177-183)
ClientOutcomes ==
    { [raised |-> TRUE, msg |-> m, rows |-> << >>] : m \in ClientMessages }
        \cup { [raised |-> FALSE, msg |-> "", rows |-> l] : l \in RowLists(MaxRows) }

CustomerIds == {"none", "1234567890"}

DateRanges == {"LAST_30_DAYS", "LAST_7_DAYS"}

\* the arguments of a tool call that reach the envelope or the client;
\* "default" stands for an omitted date_range
ToolArgs ==
    [customer_id : CustomerIds, campaign_id : CampaignIds, date_range : DateRanges \cup {"default"}]

DefaultArgs == [customer_id |-> "none", campaign_id |-> "None", date_range |-> "default"]

\* phrases that requests are made of
Phrases ==
    { <<"l", "i", "s", "t", " ", "a", "c", "c", "o", "u", "n", "t", "s">>,
      <<"a", "c", "c", "o", "u", "n", "t", " ", "s", "u", "m", "m", "a", "r", "y">>,
      <<"o", "v", "e", "r", "v", "i", "e", "w">>,
      <<"c", "a", "m", "p", "a", "i", "g", "n", "s">>,
      <<"p", "e", "r", "f", "o", "r", "m", "a", "n", "c", "e">>,
      <<"k", "e", "y", "w", "o", "r", "d", "s">>,
      <<"S", "h", "o", "w", " ", "m", "e", " ", "k", "e", "y", "w", "o", "r", "d", "s", " ", "w", "i", "t", "h", " ", "l", "o", "w", " ", "q", "u", "a", "l", "i", "t", "y">>,
      <<"q", "u", "a", "l", "i", "t", "y", " ", "s", "c", "o", "r", "e">>,
      <<"n", "e", "g", "a", "t", "i", "v", "e">>,
      <<"s", "e", "a", "r", "c", "h", " ", "t", "e", "r", "m", "s">>,
      <<"s", "e", "a", "r", "c", "h", " ", "q", "u", "e", "r", "i", "e", "s">>,
      <<"h", "i", "g", "h", " ", "c", "o", "s", "t">>,
      <<"e", "x", "p", "e", "n", "s", "i", "v", "e">>,
      <<"d", "i", "s", "a", "p", "p", "r", "o", "v", "e", "d">>,
      <<"r", "e", "j", "e", "c", "t", "e", "d">>,
      <<"g", "e", "o", "g", "r", "a", "p", "h", "i", "c">>,
      <<"l", "o", "c", "a", "t", "i", "o", "n">>,
      <<"d", "e", "v", "i", "c", "e">>,
      <<"b", "a", "n", "a", "n", "a">> }

RECURSIVE Requests(_)
Requests(n) ==
    IF n = 0 THEN { << >> }
    ELSE LET shorter == Requests(n - 1)
         IN  shorter \cup { (IF r = << >> THEN r ELSE r \o <<" ">>) \o p : r \in shorter, p \in Phrases }

NoEnvelope == [pending |-> TRUE]

VARIABLES
    customerId, \* self.customer_id of the server
    toolPc,     \* where the tool call stands
    entry,      \* how the call came in: "tool" directly, "nl" through the router
    request,    \* the text given to process_natural_language_request
    tool,       \* the tool being executed
    args,       \* its arguments
    invoked,    \* the tools invoked so far
    clientLog,  \* the calls of the client made so far, with their outcomes
    envelope,   \* what the call returned
    escaped     \* an exception left the call

toolVars ==
    <<customerId, toolPc, entry, request, tool, args, invoked, clientLog, envelope, escaped>>

(***************************************************************************)
(* The ad text validators (validators.py): inputs and state.               *)
(***************************************************************************)
\* how far past a limit the longest ad text goes, in characters
MaxOver == 3

HEADLINE_MAX_LENGTH == 30

DESCRIPTION_MAX_LENGTH == 90

AdFields == {"headline", "description"}

LimitOf(field) ==
    IF field = "headline" THEN HEADLINE_MAX_LENGTH ELSE DESCRIPTION_MAX_LENGTH

\* the characters of the ad texts: a letter, the dot of the marker, a blank
AdPatterns == {"letters", "dots", "words"}

CharAt(pattern, i) ==
    IF pattern = "letters" THEN "a"
    ELSE IF pattern = "dots" THEN "."
    ELSE IF i % 4 = 0 THEN " " ELSE "b"

\* the ad texts of up to n characters
AdTexts(n) == { [i \in 1..k |-> CharAt(pt, i)] : k \in 0..n, pt \in AdPatterns }

NotTruncated == <<"none">>

VARIABLES
    adField,    \* which truncation is applied
    adText,     \* the text given to it
    truncOnce,  \* what it returned
    truncTwice, \* what it returned for truncOnce
    validated   \* what the validator of the field returned for truncOnce

valVars == <<adField, adText, truncOnce, truncTwice, validated>>

NotValidated == [valid |-> FALSE, message |-> "none"]

(***************************************************************************)
(* The spreadsheet exporter (excel_exporter.py): inputs and state.         *)
(***************************************************************************)
\* most keywords of one ad
MaxAdKeywords == 6

\* ad.get('keywords', []) with n keywords
AdKeywords(n) == [i \in 1..n |-> "kw" \o ToString(i)]

\* a headline of 30 characters, and one of 31
FullHeadline == "a headline of thirty-one chars"

LongHeadline == FullHeadline \o "!"

\* a description of 90 characters, and one of 91
FullDescription ==
    "a description of ninety characters, which is as long as a description is allowed to grow.."

LongDescription == FullDescription \o "!"

AdVariants ==
    { [type |-> "responsive", headlines |-> h, descriptions |-> d, paths |-> pa,
       keywords |-> AdKeywords(n), notes |-> nt] :
        h \in { << >>, <<"h1">>, <<FullHeadline, LongHeadline>> },
        d \in { << >>, <<"d1">>, <<FullDescription, LongDescription>> },
        pa \in { << >>, <<"p1">>, <<"p1", "p2">> },
        n \in 0..MaxAdKeywords,
        nt \in {"", "n1"} }

PlainAd ==
    [type |-> "call", headlines |-> <<"h9">>, descriptions |-> <<"d9">>, paths |-> << >>,
     keywords |-> << >>, notes |-> ""]

\* ads_data.get('ads', [])
AdsLists == { <<ad>> : ad \in AdVariants } \cup { <<PlainAd, ad>> : ad \in AdVariants }

\* a key that a dict does not have
Missing == "missing"

\* a keyword given as a dict
KeywordItems ==
    { [isa |-> "dict", keyword |-> "shoes", match_type |-> mt, search_volume |-> "low",
       commercial_intent |-> "low", category |-> cat] :
        mt \in {"exact", "fuzzy", Missing}, cat \in {"navigational", Missing} }

\* a keyword given as a text
TextItem ==
    [isa |-> "str", keyword |-> "boots", match_type |-> Missing, search_volume |-> Missing,
     commercial_intent |-> Missing, category |-> Missing]

\* keywords_data: a dict with 'keywords', a list of dicts or of texts, or neither
KeywordsInputs ==
    { [form |-> "dict", items |-> <<k>>] : k \in KeywordItems }
        \cup { [form |-> "list", items |-> <<k, TextItem>>] : k \in KeywordItems }
        \cup { [form |-> "dict", items |-> << >>], [form |-> "other", items |-> << >>] }

FabInputs ==
    { [product_name |-> "Shop", target_audience |-> "runners",
       unique_value_proposition |-> "fast", fab_statements |-> st] :
        st \in { << >>,
                 << [feature |-> "f1", advantage |-> "a1", benefit |-> "b1",
                     bab_format |-> "bab1"] >>,
                 << [feature |-> "f1", advantage |-> "a1", benefit |-> "b1",
                     bab_format |-> Missing],
                    [feature |-> "f2", advantage |-> "a2", benefit |-> "b2",
                     bab_format |-> "bab2"] >> } }

WebsiteData ==
    [url |-> "https://shop.example", title |-> "Shop", description |-> "Shoes",
     domain |-> "shop.example"]

ExportOps ==
    {"export_google_ads", "export_keywords", "export_fab_analysis", "export_complete_report"}

NoSheets == [none |-> << >>]

VARIABLES
    adsData,      \* the ads given to the exporter
    keywordsData, \* the keywords given to it
    fabData,      \* the FAB analysis given to it
    exportOp,     \* the export operation that ran
    sheets        \* the sheets it wrote: sheet name -> rows, a row being column -> cell

exportVars == <<adsData, keywordsData, fabData, exportOp, sheets>>

IdleExport ==
    /\ adsData = << >>
    /\ keywordsData = [form |-> "other", items |-> << >>]
    /\ fabData = [fab_statements |-> << >>]
    /\ exportOp = "none"
    /\ sheets = NoSheets

(***************************************************************************)
(* The front-ends (main.py, web_app.py), the settings (config.py) and the  *)
(* construction of the adapter: inputs and state.                          *)
(***************************************************************************)
Processes == {"cli", "web"}

None == "None"

\* the provider names a web request can carry
ProviderNames == Providers \cup {"mistral"}

\* settings as loaded at start: ai_provider is one of the five names, each
\* API key is a text, empty unless it was set
LoadedSettings ==
    { [ai_provider |-> pr, ai_model |-> "gemini-2.0-flash", has_keys |-> k] :
        pr \in Providers, k \in BOOLEAN }

\* the arguments of a run: the options of the analyze command, or the
\* fields of the body of POST /api/analyze
RunArguments(process) ==
    { [has_url |-> u, ai_provider |-> pr, ai_model |-> m, keywords_only |-> ko] :
        u \in (IF process = "web" THEN BOOLEAN ELSE {TRUE}),
        pr \in {None} \cup (IF process = "web" THEN ProviderNames ELSE Providers),
        m \in {None, "llama3.1"},
        ko \in BOOLEAN }

\* the bodies of POST /api/config
ConfigBodies ==
    { [ai_provider |-> pr, ai_model |-> m] :
        pr \in {None} \cup ProviderNames, m \in {None, "llama3.1"} }

NoArguments == [has_url |-> FALSE, ai_provider |-> None, ai_model |-> None, keywords_only |-> FALSE]

NoAdapter == [provider |-> None, model |-> None, has_key |-> FALSE]

VARIABLES
    process,   \* the front-end the process runs
    settings,  \* config.settings
    loaded,    \* the settings as they were loaded at start
    runPc,     \* where the run stands
    runArgs,   \* the arguments of the run
    adapter,   \* the AIGenerator of the run
    steps,     \* the steps of the run so far: name, outcome, what it took and gave
    report,    \* the export operation that wrote the report of the run
    sessionData \* session_data of each server process: its entries, one per key

appVars == <<process, settings, loaded, runPc, runArgs, adapter, steps, report, sessionData>>

\* the worker processes of the server (gunicorn_config.py, workers = 2)
workers == 2

ServerProcesses == 1..workers

NoSessions == [p \in ServerProcesses |-> {}]

IdleApp ==
    /\ process = "none"
    /\ settings = [ai_provider |-> "google", ai_model |-> "gemini-2.0-flash", has_keys |-> FALSE]
    /\ loaded = settings
    /\ runPc = "off"
    /\ runArgs = NoArguments
    /\ adapter = NoAdapter
    /\ steps = << >>
    /\ report = "none"
    /\ sessionData = NoSessions

(***************************************************************************)
(* The web front-end under load (web_app.py, lines 118-134): the requests  *)
(* in the handler at the same time, the clock, the report files.           *)
(***************************************************************************)
\* most requests received
MaxRequests == 3

\* the last second of the clock
MaxClock == 2

\* how the server runs: the threads of one process (app.run), or the
\* worker processes of gunicorn_config.py, one request each at a time
Deployments == {"threads", "workers"}

\* the requests that can be in the handler at the same time
Handlers == 1..workers

NoRequest == [pc |-> "idle", request |-> 0, keywords_only |-> FALSE,
              filename |-> [kind |-> "none", at |-> 0]]

VARIABLES
    deployment, \* how the server runs
    clock,      \* datetime.now(), in whole seconds
    handler,    \* the request of each handler, and where it stands
    files,      \* the files of the output directory: name and the requests that wrote it
    received,   \* how many requests were received
    completed   \* the requests answered with success, by type

webVars == <<deployment, clock, handler, files, received, completed>>

IdleWeb ==
    /\ deployment = "threads"
    /\ clock = 0
    /\ handler = [h \in Handlers |-> NoRequest]
    /\ files = {}
    /\ received = 0
    /\ completed = {}

(***************************************************************************)
(* HTTP Basic authentication of the web front-end (web_app.py, lines       *)
(* 35-58; config.py, lines 47-50): settings, a request and its verdict.    *)
(***************************************************************************)
\* auth_enabled, auth_username and auth_password as loaded: the username is
\* "admin" unless set, the password empty unless set
AuthSettings ==
    { [auth_enabled |-> e, auth_username |-> u, auth_password |-> pw] :
        e \in BOOLEAN, u \in {"admin", "owner"}, pw \in {"", "secret"} }

\* the username and password of a request; both empty for a request
\* without credentials
Credentials ==
    { [username |-> u, password |-> pw] :
        u \in {"", "admin", "owner", "guest"}, pw \in {"", "secret", "wrong"} }

\* routes under require_auth, and /health, which is not
Routes == {"/", "/api/analyze", "/api/config", "/health"}

NoCredentials == [username |-> "", password |-> ""]

VARIABLES
    authSettings, \* the three settings of the authentication
    route,        \* the route of the request
    credentials,  \* the credentials of the request
    verdict       \* "accepted" or "rejected" (401), "none" before the request

authVars == <<authSettings, route, credentials, verdict>>

IdleAuth ==
    /\ authSettings = [auth_enabled |-> FALSE, auth_username |-> "admin", auth_password |-> ""]
    /\ route = "none"
    /\ credentials = NoCredentials
    /\ verdict = "none"

(***************************************************************************)
(* WebsiteParser.parse_multiple_pages (website_parser.py, lines 134-152):  *)
(* the URLs given, the loop and its results.                               *)
(***************************************************************************)
\* most URLs given to parse_multiple_pages
MaxUrls == 3

Urls == {"https://a.example", "https://b.example"}

RECURSIVE UrlLists(_)
UrlLists(n) ==
    IF n = 0 THEN { << >> }
    ELSE LET shorter == UrlLists(n - 1)
         IN  shorter \cup { Append(l, u) : l \in shorter, u \in Urls }

VARIABLES
    urls,       \* the argument of parse_multiple_pages
    parsePc,    \* "off", "loop", "returned", or "raised"
    position,   \* the index of the URL the loop is at
    fetched,    \* whether parse_url returned, for each URL the loop has passed
    pages       \* results

parseVars == <<urls, parsePc, position, fetched, pages>>

IdleParse ==
    /\ urls = << >>
    /\ parsePc = "off"
    /\ position = 1
    /\ fetched = << >>
    /\ pages = << >>

restVars == <<valVars, exportVars, appVars, webVars, authVars, parseVars>>

vars == <<extractVars, genVars, toolVars, restVars>>

IdleVal ==
    /\ adField = "none"
    /\ adText = << >>
    /\ truncOnce = NotTruncated
    /\ truncTwice = NotTruncated
    /\ validated = NotValidated


IdleTools ==
    /\ customerId = "none"
    /\ toolPc = "off"
    /\ entry = "none"
    /\ request = << >>
    /\ tool = "none"
    /\ args = DefaultArgs
    /\ invoked = << >>
    /\ clientLog = << >>
    /\ envelope = NoEnvelope
    /\ escaped = FALSE

IdleRest == IdleVal /\ IdleExport /\ IdleApp /\ IdleWeb /\ IdleAuth /\ IdleParse

(***************************************************************************)
(* _generate_fallback_keywords (lines 343-374).  The returned dict is      *)
(* written as the JSON value it is.                                        *)
(***************************************************************************)
UpperToLower ==
    "A" :> "a" @@ "B" :> "b" @@ "C" :> "c" @@ "D" :> "d" @@ "E" :> "e" @@ "F" :> "f"
        @@ "G" :> "g" @@ "H" :> "h" @@ "I" :> "i" @@ "J" :> "j" @@ "K" :> "k" @@ "L" :> "l"
        @@ "M" :> "m" @@ "N" :> "n" @@ "O" :> "o" @@ "P" :> "p" @@ "Q" :> "q" @@ "R" :> "r"
        @@ "S" :> "s" @@ "T" :> "t" @@ "U" :> "u" @@ "V" :> "v" @@ "W" :> "w" @@ "X" :> "x"
        @@ "Y" :> "y" @@ "Z" :> "z"

\* str.lower()
Lower(s) == [i \in DOMAIN s |-> IF s[i] \in DOMAIN UpperToLower THEN UpperToLower[s[i]] ELSE s[i]]

\* str.split(): the maximal runs of non-whitespace characters, in order
RECURSIVE Split(_)
Split(s) ==
    LET t == LStrip(s)
        ws == { i \in 1..Len(t) : t[i] \in Whitespace }
        e == IF ws = {} THEN Len(t) + 1 ELSE CHOOSE i \in ws : \A k \in ws : i <= k
    IN  IF t = << >> THEN << >>
        ELSE << SubSeq(t, 1, e - 1) >> \o Split(DropFirst(t, e))

Str(chars) == <<"str", chars>>

KeyKeyword == <<"k", "e", "y", "w", "o", "r", "d">>

KeyMatchType == <<"m", "a", "t", "c", "h", "_", "t", "y", "p", "e">>

KeySearchVolume == <<"s", "e", "a", "r", "c", "h", "_", "v", "o", "l", "u", "m", "e">>

KeyCommercialIntent == <<"c", "o", "m", "m", "e", "r", "c", "i", "a", "l", "_", "i", "n", "t", "e", "n", "t">>

KeyCategory == <<"c", "a", "t", "e", "g", "o", "r", "y">>

Buy == <<"b", "u", "y">>

Price == <<"p", "r", "i", "c", "e">>

Order == <<"o", "r", "d", "e", "r">>

Services == <<"s", "e", "r", "v", "i", "c", "e", "s">>

KeywordRecord(keyword, matchType, searchVolume, commercialIntent, category) ==
    <<"obj", << <<KeyKeyword, Str(keyword)>>,
                <<KeyMatchType, Str(matchType)>>,
                <<KeySearchVolume, Str(searchVolume)>>,
                <<KeyCommercialIntent, Str(commercialIntent)>>,
                <<KeyCategory, Str(category)>> >> >>

Broad == <<"b", "r", "o", "a", "d">>

Phrase == <<"p", "h", "r", "a", "s", "e">>

High == <<"h", "i", "g", "h">>

Medium == <<"m", "e", "d", "i", "u", "m">>

Transactional == <<"t", "r", "a", "n", "s", "a", "c", "t", "i", "o", "n", "a", "l">>

Informational == <<"i", "n", "f", "o", "r", "m", "a", "t", "i", "o", "n", "a", "l">>

\* generic_keywords, lines 365-370
GenericKeywords ==
    << KeywordRecord(Buy, Phrase, High, High, Transactional),
       KeywordRecord(Price, Phrase, High, High, Transactional),
       KeywordRecord(Order, Phrase, Medium, High, Transactional),
       KeywordRecord(Services, Broad, High, Medium, Informational) >>

\* shortest word, in characters, that the fallback leaves out is this long
MeaningfulOver == 3

\* WordKeywords keeping the words of three characters too
RECURSIVE WordKeywordsFromThree(_)
WordKeywordsFromThree(words) ==
    IF words = << >> THEN << >>
    ELSE (IF Len(Head(words)) >= MeaningfulOver
          THEN << KeywordRecord(Head(words), Broad, Medium, High, Transactional) >>
          ELSE << >>) \o WordKeywordsFromThree(Tail(words))

\* the loop of lines 354-362
RECURSIVE WordKeywords(_)
WordKeywords(words) ==
    IF words = << >> THEN << >>
    ELSE (IF Len(Head(words)) > MeaningfulOver
          THEN << KeywordRecord(Head(words), Broad, Medium, High, Transactional) >>
          ELSE << >>) \o WordKeywords(Tail(words))

KeywordsKey == <<"k", "e", "y", "w", "o", "r", "d", "s">>

FallbackKeywords(fabAnalysis) ==
    LET productName == IF fabAnalysis.has_name THEN fabAnalysis.product_name ELSE << >>
        fromName == IF productName # << >> THEN WordKeywords(Split(Lower(productName))) ELSE << >>
    IN  <<"obj", << <<KeywordsKey, <<"arr", fromName \o GenericKeywords>> >> >> >>

(***************************************************************************)
(* generate and the five provider methods (lines 68-231).                  *)
(***************************************************************************)
\* json_instruction, line 245 (the Russian text, in English)
JsonInstruction == "Return the result ONLY in JSON format"

\* the instruction of line 157 (the Russian text, in English)
GeminiJsonInstruction == "Important: answer ONLY in JSON format"

GeminiFallbackModel == "gemini-1.5-pro"

\* lines 139-144
GoogleModelName(m) ==
    IF m \in {"gemini-2.0-flash", "gemini-1.5-flash"} THEN "gemini-2.0-flash"
    ELSE IF m \in {"gemini-2.5-pro"} THEN "gemini-2.5-pro"
    ELSE "gemini-2.0-flash"

\* full_prompt of _generate_google, lines 149-157
GoogleFullPrompt(call) ==
    (IF call.system # "none" THEN <<call.system, "\n\n">> ELSE << >>)
        \o call.prompt
        \o (IF call.json_mode THEN <<GeminiJsonInstruction>> ELSE << >>)

\* the request that the provider method sends for a call of generate
Request(p, m, call) ==
    IF p \in {"openai", "groq"}
    THEN [model |-> m, system |-> call.system, text |-> call.prompt,
          temperature |-> call.temperature, json_format |-> call.json_mode]
    ELSE IF p = "google"
    THEN [model |-> GoogleModelName(m), system |-> "none", text |-> GoogleFullPrompt(call),
          temperature |-> call.temperature, json_format |-> FALSE]
    ELSE [model |-> m, system |-> call.system, text |-> call.prompt,
          temperature |-> call.temperature, json_format |-> FALSE]

\* the request to the alternative model, lines 184-185
FallbackRequest(call) ==
    [model |-> GeminiFallbackModel, system |-> "none", text |-> GoogleFullPrompt(call),
     temperature |-> NoTemperature, json_format |-> FALSE]

\* what a backend does with a request
Behaviours ==
    { [kind |-> "raise", text |-> << >>, msg |-> m] : m \in BackendMessages }
        \cup { [kind |-> "text", text |-> t, msg |-> ""] : t \in SampleTexts }
        \cup { [kind |-> k, text |-> << >>, msg |-> ""] : k \in {"empty", "malformed"} }

Raised(type, msg) ==
    [raised |-> TRUE, err |-> [type |-> type, msg |-> msg], ret |-> NoResponse]

Returned(kind, text) ==
    [raised |-> FALSE, err |-> NoError, ret |-> [kind |-> kind, text |-> text]]

\* outcome of the provider method for the preferred model; for google a
\* raised outcome is the exception caught at line 180
ProviderOutcome(p, b) ==
    IF b.kind = "raise" THEN Raised("BackendError", <<b.msg>>)
    ELSE IF b.kind = "text" THEN Returned("text", b.text)
    ELSE IF p \in {"openai", "groq"}
    THEN IF b.kind = "empty" THEN Returned("none", << >>)
         ELSE Raised("IndexError", <<"list index out of range">>)
    ELSE IF p = "anthropic"
    THEN IF b.kind = "empty" THEN Returned("text", << >>)
         ELSE Raised("IndexError", <<"list index out of range">>)
    ELSE IF p = "ollama"
    THEN IF b.kind = "empty" THEN Returned("text", << >>)
         ELSE Raised("KeyError", <<"message">>)
    ELSE IF b.kind = "empty" THEN Returned("text", << >>)
         ELSE Returned("text", NoResponseGenerated)

\* FallbackOutcome raising with the message of the alternative model's failure
FallbackOutcomeSecondMessage(first, b) ==
    IF b.kind = "raise" THEN Raised("Exception", <<"Google Gemini API error: ", b.msg>>)
    ELSE IF b.kind = "text" THEN Returned("text", b.text)
    ELSE Returned("text", NoResponseGenerated)

\* outcome of lines 183-189, first being the exception of the preferred model
FallbackOutcome(first, b) ==
    IF b.kind = "raise" THEN Raised("Exception", <<"Google Gemini API error: ">> \o first.msg)
    ELSE IF b.kind = "text" THEN Returned("text", b.text)
    ELSE Returned("text", NoResponseGenerated)

(***************************************************************************)
(* generate_json and the domain operations (lines 233-458).                *)
(***************************************************************************)
OpPrompt(o) ==
    IF o = "analyze_with_fab" THEN "fab analysis prompt"
    ELSE IF o = "generate_keywords" THEN "keyword generation prompt"
    ELSE IF o = "generate_google_ads" THEN "ads prompt"
    ELSE "prompt"

OpSystemPrompt(o) ==
    IF o = "analyze_with_fab" THEN "fab system prompt"
    ELSE IF o = "generate_keywords" THEN "keyword system prompt"
    ELSE IF o = "generate_google_ads" THEN "ads system prompt"
    ELSE "none"

\* the arguments of the first call of generate
FirstCall(o, t, j) ==
    IF o = "generate"
    THEN [prompt |-> <<OpPrompt(o)>>, system |-> OpSystemPrompt(o),
          temperature |-> t, json_mode |-> j]
    ELSE [prompt |-> <<OpPrompt(o), JsonInstruction>>, system |-> OpSystemPrompt(o),
          temperature |-> DefaultTemperature, json_mode |-> TRUE]

\* RetryCall asking for JSON mode again
RetryCallSameMode(first) == first

\* the arguments of the call of line 253
RetryCall(first) == [first EXCEPT !.json_mode = FALSE]

Success(value, source) ==
    [status |-> "ok", error |-> NoError, value |-> value, source |-> source]

Failure(err) ==
    [status |-> "error", error |-> err, value |-> <<"none">>, source |-> "none"]

\* lines 256-278 on what generate returned
ParseResponse(ret) ==
    IF ret.kind = "none"
    THEN Failure([type |-> "AttributeError", msg |-> <<"'NoneType' object has no attribute 'strip'">>])
    ELSE LET x == ExtractJSON(ret.text)
         IN  IF x.status = "ok" THEN Success(x.value, "backend")
             ELSE Failure([type |-> "ValueError", msg |-> x.msg])

\* OpResult with the fallback of generate_keywords under every operation
OpResultAlwaysFallback(o, f, jr) ==
    IF jr.status = "error" THEN Success(FallbackKeywords(f), "fallback") ELSE jr

\* what operation o makes of the outcome jr of its generate_json call:
\* generate_keywords catches a failure (lines 336-341), analyze_with_fab and
\* generate_google_ads return or raise what generate_json did
OpResult(o, f, jr) ==
    IF o = "generate_keywords" /\ jr.status = "error"
    THEN Success(FallbackKeywords(f), "fallback")
    ELSE jr

InitGen ==
    /\ provider \in Providers
    /\ model \in ModelNames
    /\ op = "none"
    /\ fab = NoFab
    /\ pc = "idle"
    /\ genCalls = << >>
    /\ genOutcomes = << >>
    /\ invocations = 0
    /\ sameAsPrevious = FALSE
    /\ requests = << >>
    /\ replies = << >>
    /\ firstError = NoError
    /\ returned = NoResponse
    /\ jsonResult = NoResult
    /\ result = NoResult

\* a caller invokes operation o of the adapter, for the first time or after
\* the operation before it ended; the adapter keeps nothing of an ended
\* operation (no attribute is assigned after __init__)
Invoke(o, f, t, j) ==
    /\ pc \in {"idle", "done"}
    /\ invocations < MaxInvocations
    /\ o = "generate_keywords" \/ f = NoFab
    /\ o = "generate" \/ (t = DefaultTemperature /\ j)
    /\ invocations' = invocations + 1
    /\ sameAsPrevious' = (pc = "done" /\ o = op /\ f = fab /\ FirstCall(o, t, j) = genCalls[1])
    /\ op' = o
    /\ fab' = f
    /\ genCalls' = << FirstCall(o, t, j) >>
    /\ genOutcomes' = << >>
    /\ requests' = << >>
    /\ replies' = << >>
    /\ firstError' = NoError
    /\ returned' = NoResponse
    /\ jsonResult' = NoResult
    /\ result' = NoResult
    /\ pc' = "backend"
    /\ UNCHANGED <<provider, model>>
    /\ UNCHANGED <<extractVars, toolVars, restVars>>

\* SecondCallDue for as long as generate raises
SecondCallDueAgain(out, calls) == out.raised /\ Len(calls) <= 2

\* SecondCallDue also when the text of the first call does not parse
SecondCallDueOnBadText(out, calls) ==
    /\ Len(calls) = 1
    /\ out.raised \/ ParseResponse(out.ret).status = "error"

\* the except clause of lines 250-253 runs: the first call of generate raised
SecondCallDue(out, calls) == out.raised /\ Len(calls) = 1

\* generate finished with outcome out: the rest of generate_json and of the
\* operation, up to the next call of the backend
GenerateDone(out) ==
    /\ genOutcomes' = Append(genOutcomes, [raised |-> out.raised, err |-> out.err])
    /\ IF op = "generate"
       THEN /\ result' = (IF out.raised THEN Failure(out.err)
                          ELSE Success(<<out.ret.kind, out.ret.text>>, "backend"))
            /\ returned' = out.ret
            /\ pc' = "done"
            /\ UNCHANGED <<genCalls, jsonResult>>
       ELSE IF SecondCallDue(out, genCalls)
       THEN /\ genCalls' = Append(genCalls, RetryCall(genCalls[1]))
            /\ pc' = "backend"
            /\ UNCHANGED <<returned, jsonResult, result>>
       ELSE LET jr == IF out.raised THEN Failure(out.err) ELSE ParseResponse(out.ret)
            IN  /\ jsonResult' = jr
                /\ result' = OpResult(op, fab, jr)
                /\ returned' = out.ret
                /\ pc' = "done"
                /\ UNCHANGED genCalls

\* the backend answers the request for the preferred model
BackendReply(b) ==
    /\ pc = "backend"
    /\ requests' = Append(requests, Request(provider, model, genCalls[Len(genCalls)]))
    /\ replies' = Append(replies, b)
    /\ LET out == ProviderOutcome(provider, b)
       IN  IF provider = "google" /\ out.raised
           THEN /\ firstError' = out.err
                /\ pc' = "fallback"
                /\ UNCHANGED <<genCalls, genOutcomes, returned, jsonResult, result>>
           ELSE /\ GenerateDone(out)
                /\ UNCHANGED firstError
    /\ UNCHANGED <<provider, model, op, fab, invocations, sameAsPrevious>>
    /\ UNCHANGED <<extractVars, toolVars, restVars>>

\* the backend answers the request for the alternative model
FallbackReply(b) ==
    /\ pc = "fallback"
    /\ requests' = Append(requests, FallbackRequest(genCalls[Len(genCalls)]))
    /\ replies' = Append(replies, b)
    /\ GenerateDone(FallbackOutcome(firstError, b))
    /\ UNCHANGED <<provider, model, op, fab, firstError, invocations, sameAsPrevious>>
    /\ UNCHANGED <<extractVars, toolVars, restVars>>

IdleExtract ==
    /\ body = << >>
    /\ pre = << >>
    /\ post = << >>
    /\ extracted = NotExtracted
    /\ bare = NotExtracted

Init == InitGen /\ IdleExtract /\ IdleTools /\ IdleRest

\* one operation on a new adapter, over every argument
Next ==
    \/ \E o \in Ops, f \in FabAnalyses, t \in Temperatures, j \in BOOLEAN :
            pc = "idle" /\ Invoke(o, f, t, j)
    \/ \E b \in Behaviours : BackendReply(b)
    \/ \E b \in Behaviours : FallbackReply(b)

Spec == Init /\ [][Next]_vars

\* operations one after the other on the same adapter
NextRepeat ==
    \/ \E o \in Ops, f \in RepeatFabAnalyses, t \in Temperatures, j \in BOOLEAN :
            Invoke(o, f, t, j)
    \/ \E b \in Behaviours : BackendReply(b)
    \/ \E b \in Behaviours : FallbackReply(b)

SpecRepeat == Init /\ [][NextRepeat]_vars

(***************************************************************************)
(* The extraction alone, on every response of the bounded alphabet.        *)
(***************************************************************************)
IdleGen ==
    /\ provider = "google"
    /\ model = "gemini-2.0-flash"
    /\ op = "none"
    /\ fab = NoFab
    /\ pc = "off"
    /\ genCalls = << >>
    /\ genOutcomes = << >>
    /\ invocations = 0
    /\ sameAsPrevious = FALSE
    /\ requests = << >>
    /\ replies = << >>
    /\ firstError = NoError
    /\ returned = NoResponse
    /\ jsonResult = NoResult
    /\ result = NoResult

InitExtract ==
    /\ body \in Bodies(MaxPieces)
    /\ pre = << >>
    /\ post = << >>
    /\ extracted = NotExtracted
    /\ bare = NotExtracted
    /\ IdleGen
    /\ IdleTools
    /\ IdleRest

\* the backend answers pre \o body \o post and generate_json parses it
Extract(p, q) ==
    /\ extracted = NotExtracted
    /\ pre' = p
    /\ post' = q
    /\ extracted' = ExtractJSON(p \o body \o q)
    /\ bare' = ExtractJSON(body)
    /\ UNCHANGED body
    /\ UNCHANGED <<genVars, toolVars, restVars>>

NextExtract == \E p \in Prefixes, q \in Suffixes : Extract(p, q)

SpecExtract == InitExtract /\ [][NextExtract]_vars

(***************************************************************************)
(* The tools of GoogleAdsMCPServer (mcp_server.py lines 147-450).          *)
(***************************************************************************)
\* the client method a tool calls
ClientMethod(t) ==
    IF t = "list_accounts" THEN "list_accessible_customers"
    ELSE IF t = "get_account_info" THEN "get_customer_info"
    ELSE "search"

\* the default of the date_range parameter
DefaultDateRange(t) == IF t = "get_search_terms" THEN "LAST_7_DAYS" ELSE "LAST_30_DAYS"

DateRangeOf(t, a) == IF a.date_range = "default" THEN DefaultDateRange(t) ELSE a.date_range

\* cid = customer_id or self.customer_id, lines 163 and 441
CustomerOf(t, a, own) ==
    IF t \in {"get_account_info", "run_custom_query"} /\ a.customer_id # "none"
    THEN a.customer_id
    ELSE own

\* the early return of get_account_info, lines 164-165
WithoutCustomer(t, a, own) == t = "get_account_info" /\ CustomerOf(t, a, own) = "none"

Ok(fields) == ("success" :> TRUE) @@ fields

Err(msg) == ("success" :> FALSE) @@ ("error" :> msg)

\* a successful envelope less its count
Uncounted(key, rows) == Ok(key :> rows)

\* {'success': True, 'count': len(results), key: results}
Counted(key, rows) == Ok(("count" :> Len(rows)) @@ (key :> rows))

Dated(t, a) == "date_range" :> DateRangeOf(t, a)

Recommended(text) == "recommendation" :> text

EmptyDict == << >>

\* results[0] if results else {}
FirstOrEmpty(rows) == IF rows = << >> THEN EmptyDict ELSE rows[1]

\* lines 222 and 226
RECURSIVE CampaignData(_, _)
CampaignData(rows, id) ==
    IF rows = << >> THEN << >>
    ELSE (IF Head(rows).campaign_id = id THEN << Head(rows) >> ELSE << >>)
             \o CampaignData(Tail(rows), id)

FirstOrNone(rows) == IF rows = << >> THEN "None" ELSE rows[1]

\* the envelope a tool builds from the rows its client call returned
SuccessEnvelope(t, a, rows) ==
    IF t = "list_accounts" THEN Counted("accounts", rows)
    ELSE IF t = "get_account_info" THEN Ok("account" :> FirstOrEmpty(rows))
    ELSE IF t = "get_account_summary"
         THEN Ok(("summary" :> FirstOrEmpty(rows)) @@ Dated(t, a))
    ELSE IF t = "get_campaigns" THEN Counted("campaigns", rows) @@ Dated(t, a)
    ELSE IF t = "get_campaign_performance"
         THEN Ok(("campaign" :> FirstOrNone(CampaignData(rows, a.campaign_id))) @@ Dated(t, a))
    ELSE IF t = "get_campaign_budget" THEN Counted("budgets", rows)
    ELSE IF t = "get_ad_groups" THEN Counted("ad_groups", rows) @@ Dated(t, a)
    ELSE IF t = "get_keywords" THEN Counted("keywords", rows) @@ Dated(t, a)
    ELSE IF t = "get_search_terms" THEN Counted("search_terms", rows) @@ Dated(t, a)
    ELSE IF t = "get_negative_keywords" THEN Counted("negative_keywords", rows)
    ELSE IF t = "get_ads" THEN Counted("ads", rows) @@ Dated(t, a)
    ELSE IF t = "get_geographic_performance" THEN Counted("geographic_data", rows) @@ Dated(t, a)
    ELSE IF t = "get_device_performance" THEN Counted("device_data", rows) @@ Dated(t, a)
    ELSE IF t = "diagnose_low_quality_scores"
         THEN Counted("low_quality_keywords", rows)
                  @@ Recommended("Review ad relevance, landing pages, and expected CTR")
    ELSE IF t = "diagnose_high_cost_campaigns"
         THEN Counted("campaigns", rows)
                  @@ Recommended("Review targeting, ad copy, and landing page conversion rate")
    ELSE IF t = "find_disapproved_ads"
         THEN Counted("disapproved_ads", rows)
                  @@ Recommended("Review policy violations and update ad copy")
    ELSE Counted("results", rows)

\* ToolReturn without the except clause
ToolReturnUnguarded(t, a, out) ==
    IF out.raised
    THEN [escaped |-> TRUE, envelope |-> NoEnvelope]
    ELSE [escaped |-> FALSE, envelope |-> SuccessEnvelope(t, a, out.rows)]

\* the try/except of every tool around its client call
ToolReturn(t, a, out) ==
    IF out.raised
    THEN [escaped |-> FALSE, envelope |-> Err(out.msg)]
    ELSE [escaped |-> FALSE, envelope |-> SuccessEnvelope(t, a, out.rows)]

(***************************************************************************)
(* process_natural_language_request (lines 452-510).                       *)
(***************************************************************************)
\* the Python operator `in` on texts: p occurs in s
Contains(s, p) ==
    \E i \in 0..(Len(s) - Len(p)) :
        (p = << >> \/ s[i + 1] = p[1]) /\ SubSeq(s, i + 1, i + Len(p)) = p

WAccounts == <<"a", "c", "c", "o", "u", "n", "t", "s">>

WListAccounts == <<"l", "i", "s", "t", " ", "a", "c", "c", "o", "u", "n", "t", "s">>

WAccountSummary == <<"a", "c", "c", "o", "u", "n", "t", " ", "s", "u", "m", "m", "a", "r", "y">>

WOverview == <<"o", "v", "e", "r", "v", "i", "e", "w">>

WCampaigns == <<"c", "a", "m", "p", "a", "i", "g", "n", "s">>

WPerformance == <<"p", "e", "r", "f", "o", "r", "m", "a", "n", "c", "e">>

WKeywords == <<"k", "e", "y", "w", "o", "r", "d", "s">>

WLowQuality == <<"l", "o", "w", " ", "q", "u", "a", "l", "i", "t", "y">>

WQualityScore == <<"q", "u", "a", "l", "i", "t", "y", " ", "s", "c", "o", "r", "e">>

WNegative == <<"n", "e", "g", "a", "t", "i", "v", "e">>

WSearchTerms == <<"s", "e", "a", "r", "c", "h", " ", "t", "e", "r", "m", "s">>

WSearchQueries == <<"s", "e", "a", "r", "c", "h", " ", "q", "u", "e", "r", "i", "e", "s">>

WHighCost == <<"h", "i", "g", "h", " ", "c", "o", "s", "t">>

WExpensive == <<"e", "x", "p", "e", "n", "s", "i", "v", "e">>

WDisapproved == <<"d", "i", "s", "a", "p", "p", "r", "o", "v", "e", "d">>

WRejected == <<"r", "e", "j", "e", "c", "t", "e", "d">>

WGeographic == <<"g", "e", "o", "g", "r", "a", "p", "h", "i", "c">>

WLocation == <<"l", "o", "c", "a", "t", "i", "o", "n">>

WDevice == <<"d", "e", "v", "i", "c", "e">>

\* Route with the keyword rule ahead of the campaign rule
RouteKeywordsFirst(req) ==
    LET r == Lower(req)
    IN  IF Contains(r, WAccounts) \/ Contains(r, WListAccounts) THEN "list_accounts"
        ELSE IF Contains(r, WAccountSummary) \/ Contains(r, WOverview) THEN "get_account_summary"
        ELSE IF Contains(r, WKeywords)
             THEN IF Contains(r, WLowQuality) \/ Contains(r, WQualityScore)
                  THEN "diagnose_low_quality_scores"
                  ELSE IF Contains(r, WNegative) THEN "get_negative_keywords"
                  ELSE "get_keywords"
        ELSE IF Contains(r, WCampaigns) /\ ~Contains(r, WPerformance) THEN "get_campaigns"
        ELSE IF Contains(r, WSearchTerms) \/ Contains(r, WSearchQueries) THEN "get_search_terms"
        ELSE IF Contains(r, WHighCost) \/ Contains(r, WExpensive) THEN "diagnose_high_cost_campaigns"
        ELSE IF Contains(r, WDisapproved) \/ Contains(r, WRejected) THEN "find_disapproved_ads"
        ELSE IF Contains(r, WGeographic) \/ Contains(r, WLocation) THEN "get_geographic_performance"
        ELSE IF Contains(r, WDevice) THEN "get_device_performance"
        ELSE "none"

\* the tool that lines 465-503 call for a request, "none" for the default
Route(req) ==
    LET r == Lower(req)
    IN  IF Contains(r, WAccounts) \/ Contains(r, WListAccounts) THEN "list_accounts"
        ELSE IF Contains(r, WAccountSummary) \/ Contains(r, WOverview) THEN "get_account_summary"
        ELSE IF Contains(r, WCampaigns) /\ ~Contains(r, WPerformance) THEN "get_campaigns"
        ELSE IF Contains(r, WKeywords)
             THEN IF Contains(r, WLowQuality) \/ Contains(r, WQualityScore)
                  THEN "diagnose_low_quality_scores"
                  ELSE IF Contains(r, WNegative) THEN "get_negative_keywords"
                  ELSE "get_keywords"
        ELSE IF Contains(r, WSearchTerms) \/ Contains(r, WSearchQueries) THEN "get_search_terms"
        ELSE IF Contains(r, WHighCost) \/ Contains(r, WExpensive) THEN "diagnose_high_cost_campaigns"
        ELSE IF Contains(r, WDisapproved) \/ Contains(r, WRejected) THEN "find_disapproved_ads"
        ELSE IF Contains(r, WGeographic) \/ Contains(r, WLocation) THEN "get_geographic_performance"
        ELSE IF Contains(r, WDevice) THEN "get_device_performance"
        ELSE "none"

\* the default answer, lines 506-510
Unrecognized ==
    Err("Could not understand request. Please use one of the available tools.")
        @@ ("available_tools" :> AvailableToolNames)

InitTools ==
    /\ customerId \in CustomerIds
    /\ toolPc = "idle"
    /\ entry = "none"
    /\ request = << >>
    /\ tool = "none"
    /\ args = DefaultArgs
    /\ invoked = << >>
    /\ clientLog = << >>
    /\ envelope = NoEnvelope
    /\ escaped = FALSE
    /\ IdleGen
    /\ IdleExtract
    /\ IdleRest

\* tool t starts with arguments a: up to its client call, or to its early return
StartTool(t, a) ==
    /\ tool' = t
    /\ args' = a
    /\ invoked' = Append(invoked, t)
    /\ IF WithoutCustomer(t, a, customerId)
       THEN /\ envelope' = Err("No customer ID provided")
            /\ toolPc' = "done"
       ELSE /\ toolPc' = "client"
            /\ UNCHANGED envelope
    /\ UNCHANGED <<customerId, clientLog, escaped>>
    /\ UNCHANGED <<extractVars, genVars, restVars>>

\* a caller calls tool t of the registry
CallTool(t, a) ==
    /\ toolPc = "idle"
    /\ entry' = "tool"
    /\ StartTool(t, a)
    /\ UNCHANGED request

\* a caller calls process_natural_language_request(req)
ProcessRequest(req) ==
    /\ toolPc = "idle"
    /\ entry' = "nl"
    /\ request' = req
    /\ IF Route(req) # "none"
       THEN StartTool(Route(req), DefaultArgs)
       ELSE /\ envelope' = Unrecognized
            /\ toolPc' = "done"
            /\ UNCHANGED <<customerId, tool, args, invoked, clientLog, escaped>>
            /\ UNCHANGED <<extractVars, genVars, restVars>>

\* the client call of the tool ends with outcome out; the tool returns
ClientReply(out) ==
    /\ toolPc = "client"
    /\ clientLog' = Append(clientLog,
           [method |-> ClientMethod(tool), customer |-> CustomerOf(tool, args, customerId),
            raised |-> out.raised, msg |-> out.msg, rows |-> out.rows])
    /\ envelope' = ToolReturn(tool, args, out).envelope
    /\ escaped' = ToolReturn(tool, args, out).escaped
    /\ toolPc' = "done"
    /\ UNCHANGED <<customerId, entry, request, tool, args, invoked>>
    /\ UNCHANGED <<extractVars, genVars, restVars>>

NextTools ==
    \/ toolPc = "idle" /\ \E t \in ToolRegistry, a \in ToolArgs : CallTool(t, a)
    \/ toolPc = "idle" /\ \E req \in Requests(MaxPhrases) : ProcessRequest(req)
    \/ toolPc = "client" /\ \E out \in ClientOutcomes : ClientReply(out)

SpecTools == InitTools /\ [][NextTools]_vars

(***************************************************************************)
(* ExcelExporter (excel_exporter.py).  A sheet is the sequence of its rows *)
(* below the header; a row maps the column names to the cells.             *)
(***************************************************************************)
RECURSIVE Flatten(_)
Flatten(ss) == IF ss = << >> THEN << >> ELSE Head(ss) \o Flatten(Tail(ss))

\* dict.get(key, default) for a value read from a dict
Get(v, default) == IF v = Missing THEN default ELSE v

\* ', '.join(ks): the texts with the separator between them
RECURSIVE Join(_)
Join(ks) ==
    IF Len(ks) <= 1 THEN ks ELSE <<Head(ks), ", ">> \o Join(Tail(ks))

AdGroup(idx) == "Ad Group " \o ToString(idx)

Path1(ad) == IF ad.paths # << >> THEN ad.paths[1] ELSE ""

Path2(ad) == IF Len(ad.paths) > 1 THEN ad.paths[2] ELSE ""

LengthStatus(t, limit) == IF Len(t) <= limit THEN "OK" ELSE "TOO LONG"

\* the rows of one ad: one per headline and description (lines 48-60), with
\* the columns after Description given by rest
HeadlineByDescription(ad, idx, rest) ==
    LET D == Len(ad.descriptions)
    IN  [k \in 1..(Len(ad.headlines) * D) |->
            ("Ad Group" :> AdGroup(idx)) @@ ("Type" :> ad.type)
                @@ ("Headline" :> ad.headlines[((k - 1) \div D) + 1])
                @@ ("Description" :> ad.descriptions[((k - 1) % D) + 1])
                @@ rest]

\* lines 47-60
AllAdsRows(ad, idx) ==
    HeadlineByDescription(ad, idx,
        ("Path 1" :> Path1(ad)) @@ ("Path 2" :> Path2(ad))
            @@ ("Keywords" :> Join(Prefix(ad.keywords, 5))) @@ ("Notes" :> ad.notes))

\* lines 313-324
ReportAdsRows(ad, idx) ==
    HeadlineByDescription(ad, idx,
        ("Path 1" :> Path1(ad)) @@ ("Keywords" :> Join(Prefix(ad.keywords, 3))))

\* HeadlinesRows cutting a headline at 30 characters
HeadlinesRowsShortened(ad, idx) ==
    [k \in 1..Len(ad.headlines) |->
        ("Ad Group" :> AdGroup(idx)) @@ ("Type" :> ad.type)
            @@ ("Headline" :> IF ad.headlines[k] = LongHeadline THEN FullHeadline
                              ELSE ad.headlines[k])
            @@ ("Length" :> ToString(Len(ad.headlines[k])))
            @@ ("Status" :> LengthStatus(ad.headlines[k], 30))]

\* lines 65-74
HeadlinesRows(ad, idx) ==
    [k \in 1..Len(ad.headlines) |->
        ("Ad Group" :> AdGroup(idx)) @@ ("Type" :> ad.type)
            @@ ("Headline" :> ad.headlines[k])
            @@ ("Length" :> ToString(Len(ad.headlines[k])))
            @@ ("Status" :> LengthStatus(ad.headlines[k], 30))]

\* lines 79-88
DescriptionsRows(ad, idx) ==
    [k \in 1..Len(ad.descriptions) |->
        ("Ad Group" :> AdGroup(idx)) @@ ("Type" :> ad.type)
            @@ ("Description" :> ad.descriptions[k])
            @@ ("Length" :> ToString(Len(ad.descriptions[k])))
            @@ ("Status" :> LengthStatus(ad.descriptions[k], 90))]

\* lines 93-100
AdKeywordsRows(ad, idx) ==
    [k \in 1..Len(ad.keywords) |->
        ("Ad Group" :> AdGroup(idx)) @@ ("Type" :> ad.type) @@ ("Keyword" :> ad.keywords[k])]

KeywordRow(kw, mt, sv, ci, cat) ==
    ("Keyword" :> kw) @@ ("Match Type" :> mt) @@ ("Search Volume" :> sv)
        @@ ("Commercial Intent" :> ci) @@ ("Category" :> cat)

\* the row of one keyword; a keyword given as a text gets the category
\* textCategory (lines 152-176, 332-356)
KeywordItemRow(kw, textCategory) ==
    IF kw.isa = "str"
    THEN KeywordRow(kw.keyword, "broad", "medium", "medium", textCategory)
    ELSE KeywordRow(Get(kw.keyword, ""), Get(kw.match_type, "broad"),
                    Get(kw.search_volume, "medium"), Get(kw.commercial_intent, "medium"),
                    Get(kw.category, "transactional"))

\* lines 147-176 and 329-356
KeywordsRows(kd, textCategory) ==
    IF kd.form \in {"dict", "list"}
    THEN [k \in 1..Len(kd.items) |-> KeywordItemRow(kd.items[k], textCategory)]
    ELSE << >>

\* lines 180-185
DefaultKeywordRows ==
    << KeywordRow("buy", "phrase", "high", "high", "transactional"),
       KeywordRow("price", "phrase", "high", "high", "transactional"),
       KeywordRow("order", "phrase", "medium", "high", "transactional"),
       KeywordRow("services", "broad", "high", "medium", "informational") >>

\* lines 220-227 and 301-308
FabRows(fd) ==
    [k \in 1..Len(fd.fab_statements) |->
        ("Feature" :> Get(fd.fab_statements[k].feature, ""))
            @@ ("Advantage" :> Get(fd.fab_statements[k].advantage, ""))
            @@ ("Benefit" :> Get(fd.fab_statements[k].benefit, ""))
            @@ ("BAB Format" :> Get(fd.fab_statements[k].bab_format, ""))]

\* the sheets written by export_google_ads (lines 44-109)
export_google_ads(ads) ==
    ("All Ads" :> Flatten([i \in 1..Len(ads) |-> AllAdsRows(ads[i], i)]))
        @@ ("Headlines" :> Flatten([i \in 1..Len(ads) |-> HeadlinesRows(ads[i], i)]))
        @@ ("Descriptions" :> Flatten([i \in 1..Len(ads) |-> DescriptionsRows(ads[i], i)]))
        @@ ("Keywords" :> Flatten([i \in 1..Len(ads) |-> AdKeywordsRows(ads[i], i)]))

\* the sheet written by export_keywords (lines 147-190)
export_keywords(kd) ==
    LET rows == KeywordsRows(kd, "transactional (ru)")
    IN  "Sheet1" :> (IF rows = << >> THEN DefaultKeywordRows ELSE rows)

\* the sheets written by export_fab_analysis (lines 213-234)
export_fab_analysis(fd) ==
    ("General Info" :>
        << ("Product Name" :> fd.product_name) @@ ("Target Audience" :> fd.target_audience)
             @@ ("Unique Value Proposition" :> fd.unique_value_proposition) >>)
        @@ ("FAB Statements" :> FabRows(fd))

\* the sheets written by export_complete_report (lines 276-359)
export_complete_report(wd, fd, kd, ads) ==
    ("Website Info" :>
        << ("URL" :> wd.url) @@ ("Title" :> wd.title) @@ ("Description" :> wd.description)
             @@ ("Domain" :> wd.domain) >>)
        @@ ("FAB Analysis" :> FabRows(fd))
        @@ ("Google Ads" :> Flatten([i \in 1..Len(ads) |-> ReportAdsRows(ads[i], i)]))
        @@ ("Keywords" :> KeywordsRows(kd, "transactional"))

InitExport ==
    /\ adsData \in AdsLists
    /\ keywordsData \in KeywordsInputs
    /\ fabData \in FabInputs
    /\ exportOp = "none"
    /\ sheets = NoSheets
    /\ IdleExtract
    /\ IdleGen
    /\ IdleTools
    /\ IdleVal
    /\ IdleApp
    /\ IdleWeb
    /\ IdleAuth
    /\ IdleParse

ExportGoogleAds ==
    /\ exportOp = "none"
    /\ exportOp' = "export_google_ads"
    /\ sheets' = export_google_ads(adsData)
    /\ UNCHANGED <<adsData, keywordsData, fabData>>
    /\ UNCHANGED <<extractVars, genVars, toolVars, valVars, appVars, webVars, authVars, parseVars>>

ExportKeywords ==
    /\ exportOp = "none"
    /\ exportOp' = "export_keywords"
    /\ sheets' = export_keywords(keywordsData)
    /\ UNCHANGED <<adsData, keywordsData, fabData>>
    /\ UNCHANGED <<extractVars, genVars, toolVars, valVars, appVars, webVars, authVars, parseVars>>

ExportFabAnalysis ==
    /\ exportOp = "none"
    /\ exportOp' = "export_fab_analysis"
    /\ sheets' = export_fab_analysis(fabData)
    /\ UNCHANGED <<adsData, keywordsData, fabData>>
    /\ UNCHANGED <<extractVars, genVars, toolVars, valVars, appVars, webVars, authVars, parseVars>>

ExportCompleteReport ==
    /\ exportOp = "none"
    /\ exportOp' = "export_complete_report"
    /\ sheets' = export_complete_report(WebsiteData, fabData, keywordsData, adsData)
    /\ UNCHANGED <<adsData, keywordsData, fabData>>
    /\ UNCHANGED <<extractVars, genVars, toolVars, valVars, appVars, webVars, authVars, parseVars>>

NextExport == ExportGoogleAds \/ ExportKeywords \/ ExportFabAnalysis \/ ExportCompleteReport

SpecExport == InitExport /\ [][NextExport]_vars

(***************************************************************************)
(* The full run of the front-ends: analyze (main.py, lines 53-135) and     *)
(* analyze_website (web_app.py, lines 66-149), with AIGenerator.__init__   *)
(* (ai_generator.py, lines 16-66) and POST /api/config (web_app.py, lines  *)
(* 222-230).                                                               *)
(***************************************************************************)
\* what the backend path of generate_keywords returns
BackendKeywords ==
    { <<"obj", << <<KeywordsKey,
                    <<"arr", << KeywordRecord(Buy, Phrase, High, High, Transactional) >> >> >> >> >>,
      <<"obj", << >> >> }

\* the arguments given to AIGenerator: the web handler reads the settings
\* for what the request leaves out (web_app.py, lines 73-74), the command
\* passes its options on (main.py, line 83)
AdapterArguments(pr, a, st) ==
    IF pr = "web"
    THEN [a EXCEPT !.ai_provider = IF @ = None THEN st.ai_provider ELSE @,
                   !.ai_model = IF @ = None THEN st.ai_model ELSE @]
    ELSE a

\* AIGenerator.__init__: the provider and model given, or those of the
\* settings; the client of the provider, made with the API key of the
\* settings as it is; ValueError for any other provider name.  clientMade
\* tells whether the import of the client library and its constructor
\* returned.  has_key records whether the provider's key was set.
NewAdapter(providerArg, modelArg, st, clientMade) ==
    LET pr == IF providerArg # None THEN providerArg ELSE st.ai_provider
        m == IF modelArg # None THEN modelArg ELSE st.ai_model
    IN  IF pr \notin Providers
        THEN [ok |-> FALSE, error |-> "ValueError", adapter |-> NoAdapter]
        ELSE IF ~clientMade
        THEN [ok |-> FALSE, error |-> "ClientError", adapter |-> NoAdapter]
        ELSE [ok |-> TRUE, error |-> "none",
              adapter |-> [provider |-> pr, model |-> m,
                           has_key |-> st.has_keys \/ pr = "ollama"]]

\* dict.get(key, default) on a parsed JSON object
DictGet(obj, key, default) ==
    LET pairs == obj[2]
        at == { k \in 1..Len(pairs) : pairs[k][1] = key }
    IN  IF at = {} THEN default ELSE pairs[CHOOSE k \in at : TRUE][2]

\* keywords_list of main.py, lines 105-108, and web_app.py, lines 111-114
KeywordsList(kd) ==
    IF kd[1] = "obj" /\ DictGet(kd, KeywordsKey, None) # None
    THEN LET kws == DictGet(kd, KeywordsKey, None)[2]
         IN  [i \in 1..Len(kws) |->
                IF kws[i][1] = "obj" THEN DictGet(kws[i], KeyKeyword, kws[i]) ELSE kws[i]]
    ELSE << >>

\* most keywords given to generate_google_ads
AdsKeywordsLimit == 20

Step(name, ok, took, gave) == [name |-> name, ok |-> ok, took |-> took, gave |-> gave]

\* what the step called name gave
Gave(name) == steps[CHOOSE i \in 1..Len(steps) : steps[i].name = name].gave

AdsData == <<"obj", << >> >>

\* main.py, lines 97-112; web_app.py, lines 94-116
AfterKeywords(keywordsOnly) == IF keywordsOnly THEN "export" ELSE "ads"

\* the name of a file, from its kind and strftime('%Y%m%d_%H%M%S') of now
FileName(kind, now) == [kind |-> kind, at |-> now]

\* d[key] = value on a dict held as the set of its entries
DictPut(d, e) == { x \in d : x.id # e.id } \cup {e}

\* web_app.py, lines 126-134: session_data[now] = {..., 'filepath': filepath}
\* in the session_data of server process p; req is whose results they are
StoreSession(sd, p, now, filepath, req) ==
    [sd EXCEPT ![p] = DictPut(@, [id |-> now, filepath |-> filepath, request |-> req])]

\* StoreSession for a keywords-only answer as well
SessionKeptAlways(keywordsOnly) == TRUE

\* the handler reaches lines 126-134: not on the return of lines 100-107
SessionKept(keywordsOnly) == ~keywordsOnly

InitRun ==
    /\ process \in Processes
    /\ settings \in LoadedSettings
    /\ loaded = settings
    /\ runPc = "idle"
    /\ runArgs = NoArguments
    /\ adapter = NoAdapter
    /\ steps = << >>
    /\ report = "none"
    /\ sessionData = NoSessions
    /\ IdleExtract
    /\ IdleGen
    /\ IdleTools
    /\ IdleVal
    /\ IdleExport
    /\ IdleWeb
    /\ IdleAuth
    /\ IdleParse

\* POST /api/config with body data
ConfigPost(data) ==
    /\ process = "web"
    /\ runPc = "idle"
    /\ settings' = [settings EXCEPT
                        !.ai_provider = IF data.ai_provider # None THEN data.ai_provider ELSE @,
                        !.ai_model = IF data.ai_model # None THEN data.ai_model ELSE @]
    /\ UNCHANGED <<process, loaded, runPc, runArgs, adapter, steps, report, sessionData>>
    /\ UNCHANGED <<extractVars, genVars, toolVars, valVars, exportVars, webVars, authVars, parseVars>>

\* the run starts: the command is entered, or POST /api/analyze arrives; a
\* request without url is answered with 400
StartRun(a) ==
    /\ runPc = "idle"
    /\ runArgs' = AdapterArguments(process, a, settings)
    /\ runPc' = IF a.has_url THEN "fetch" ELSE "rejected"
    /\ UNCHANGED <<process, settings, loaded, adapter, steps, report, sessionData>>
    /\ UNCHANGED <<extractVars, genVars, toolVars, valVars, exportVars, webVars, authVars, parseVars>>

\* Ended going on to the next step after an exception
EndedGoesOn(ok, next) == next

\* the exception of a step reaches the except clause of the front-end
Ended(ok, next) == IF ok THEN next ELSE "failed"

\* step 1: parser.parse_url(url)
Fetch(ok) ==
    /\ runPc = "fetch"
    /\ steps' = Append(steps, Step("fetch", ok, "url", WebsiteData))
    /\ runPc' = Ended(ok, "construct")
    /\ UNCHANGED <<process, settings, loaded, runArgs, adapter, report, sessionData>>
    /\ UNCHANGED <<extractVars, genVars, toolVars, valVars, exportVars, webVars, authVars, parseVars>>

\* step 2, first statement: AIGenerator(provider, model)
Construct(clientMade) ==
    /\ runPc = "construct"
    /\ LET made == NewAdapter(runArgs.ai_provider, runArgs.ai_model, settings, clientMade)
       IN  /\ adapter' = made.adapter
           /\ steps' = Append(steps, Step("construct", made.ok, runArgs.ai_provider, made.error))
           /\ runPc' = Ended(made.ok, "analyze")
    /\ UNCHANGED <<process, settings, loaded, runArgs, report, sessionData>>
    /\ UNCHANGED <<extractVars, genVars, toolVars, valVars, exportVars, webVars, authVars, parseVars>>

\* step 2, second statement: analyze_with_fab(website_data), which calls
\* the backend and returns the analysis or raises
Analyze(ok, f) ==
    /\ runPc = "analyze"
    /\ steps' = Append(steps, Step("analyze", ok, Gave("fetch"), IF ok THEN f ELSE NoFab))
    /\ runPc' = Ended(ok, "keywords")
    /\ UNCHANGED <<process, settings, loaded, runArgs, adapter, report, sessionData>>
    /\ UNCHANGED <<extractVars, genVars, toolVars, valVars, exportVars, webVars, authVars, parseVars>>

\* step 3: generate_keywords(fab_analysis), which returns what its backend
\* path gave, kd, or the fallback keywords when that path failed
Keywords(backendOk, kd) ==
    /\ runPc = "keywords"
    /\ LET jr == IF backendOk THEN Success(kd, "backend")
                 ELSE Failure([type |-> "BackendError", msg |-> << >>])
           r == OpResult("generate_keywords", Gave("analyze"), jr)
       IN  steps' = Append(steps, Step("keywords", r.status = "ok", r.source, r.value))
    /\ runPc' = AfterKeywords(runArgs.keywords_only)
    /\ UNCHANGED <<process, settings, loaded, runArgs, adapter, report, sessionData>>
    /\ UNCHANGED <<extractVars, genVars, toolVars, valVars, exportVars, webVars, authVars, parseVars>>

\* step 4: generate_google_ads(fab_analysis, keywords_list[:20])
Ads(ok) ==
    /\ runPc = "ads"
    /\ steps' = Append(steps, Step("ads", ok,
                    Prefix(KeywordsList(Gave("keywords")), AdsKeywordsLimit), AdsData))
    /\ runPc' = Ended(ok, "export")
    /\ UNCHANGED <<process, settings, loaded, runArgs, adapter, report, sessionData>>
    /\ UNCHANGED <<extractVars, genVars, toolVars, valVars, exportVars, webVars, authVars, parseVars>>

\* step 5: export_complete_report, or export_keywords of a keywords-only
\* run, and for the web front-end the entry of session_data after it
Export(ok) ==
    /\ runPc = "export"
    /\ LET operation == IF runArgs.keywords_only THEN "export_keywords"
                        ELSE "export_complete_report"
       IN  /\ steps' = Append(steps, Step("export", ok, Gave("keywords"), operation))
           /\ report' = IF ok THEN operation ELSE "none"
           /\ sessionData' =
                 IF ok /\ process = "web" /\ SessionKept(runArgs.keywords_only)
                 THEN StoreSession(sessionData, 1, clock, FileName(operation, clock), 1)
                 ELSE sessionData
    /\ runPc' = Ended(ok, "done")
    /\ UNCHANGED <<process, settings, loaded, runArgs, adapter>>
    /\ UNCHANGED <<extractVars, genVars, toolVars, valVars, exportVars, webVars, authVars, parseVars>>

NextRun ==
    \/ \E data \in ConfigBodies : ConfigPost(data)
    \/ \E a \in RunArguments(process) : StartRun(a)
    \/ \E ok \in BOOLEAN : Fetch(ok)
    \/ \E clientMade \in BOOLEAN : Construct(clientMade)
    \/ \E ok \in BOOLEAN, f \in RepeatFabAnalyses : Analyze(ok, f)
    \/ \E backendOk \in BOOLEAN, kd \in BackendKeywords : Keywords(backendOk, kd)
    \/ \E ok \in BOOLEAN : Ads(ok)
    \/ \E ok \in BOOLEAN : Export(ok)

SpecRun == InitRun /\ [][NextRun]_vars

(***************************************************************************)
(* analyze_website under load (web_app.py, lines 66-149): requests that    *)
(* are in the handler together, each a full or a keywords-only analysis.   *)
(***************************************************************************)
\* the server process that answers the request of handler h
ProcessOf(h) == IF deployment = "threads" THEN 1 ELSE h

\* the file called name is written for request req: a file of that name is
\* replaced
FileWrite(fs, name, req) ==
    LET before == UNION { f.writers : f \in { g \in fs : g.name = name } }
    IN  { f \in fs : f.name # name } \cup {[name |-> name, writers |-> before \cup {req}]}

InitWeb ==
    /\ deployment \in Deployments
    /\ clock = 0
    /\ handler = [h \in Handlers |-> NoRequest]
    /\ files = {}
    /\ received = 0
    /\ completed = {}
    /\ IdleApp
    /\ IdleAuth
    /\ IdleParse
    /\ IdleExtract
    /\ IdleGen
    /\ IdleTools
    /\ IdleVal
    /\ IdleExport

\* a second passes
Tick ==
    /\ clock < MaxClock
    /\ clock' = clock + 1
    /\ UNCHANGED <<deployment, handler, files, received, completed>>
    /\ UNCHANGED <<extractVars, genVars, toolVars, valVars, exportVars, appVars, authVars, parseVars>>

\* POST /api/analyze arrives at handler h; steps 1 to 4 run (lines 70-116)
Receive(h, keywordsOnly) ==
    /\ handler[h].pc = "idle"
    /\ received < MaxRequests
    /\ received' = received + 1
    /\ handler' = [handler EXCEPT ![h] = [NoRequest EXCEPT !.pc = "export",
                                                           !.request = received + 1,
                                                           !.keywords_only = keywordsOnly]]
    /\ UNCHANGED <<deployment, clock, files, completed>>
    /\ UNCHANGED <<extractVars, genVars, toolVars, valVars, exportVars, appVars, authVars, parseVars>>

\* a step of the request raises: the answer is 500 (lines 147-149)
Fail(h) ==
    /\ handler[h].pc = "export"
    /\ handler' = [handler EXCEPT ![h] = NoRequest]
    /\ UNCHANGED <<deployment, clock, files, received, completed>>
    /\ UNCHANGED <<extractVars, genVars, toolVars, valVars, exportVars, appVars, authVars, parseVars>>

\* the file is named after now and written (lines 96-98, 118-124); a
\* keywords-only request is answered
WriteReport(h) ==
    /\ handler[h].pc = "export"
    /\ LET kind == IF handler[h].keywords_only THEN "keywords" ELSE "complete_report"
           name == FileName(kind, clock)
       IN  /\ files' = FileWrite(files, name, handler[h].request)
           /\ IF SessionKept(handler[h].keywords_only)
              THEN /\ handler' = [handler EXCEPT ![h].pc = "store", ![h].filename = name]
                   /\ UNCHANGED completed
              ELSE /\ handler' = [handler EXCEPT ![h] = NoRequest]
                   /\ completed' = completed \cup
                          {[request |-> handler[h].request, type |-> "keywords_only"]}
    /\ UNCHANGED <<deployment, clock, received>>
    /\ UNCHANGED <<extractVars, genVars, toolVars, valVars, exportVars, appVars, authVars, parseVars>>

\* the results are stored under now and the request is answered (lines
\* 126-145)
Store(h) ==
    /\ handler[h].pc = "store"
    /\ sessionData' = StoreSession(sessionData, ProcessOf(h), clock,
                                   handler[h].filename, handler[h].request)
    /\ completed' = completed \cup {[request |-> handler[h].request, type |-> "complete"]}
    /\ handler' = [handler EXCEPT ![h] = NoRequest]
    /\ UNCHANGED <<deployment, clock, files, received>>
    /\ UNCHANGED <<extractVars, genVars, toolVars, valVars, exportVars, authVars, parseVars>>
    /\ UNCHANGED <<process, settings, loaded, runPc, runArgs, adapter, steps, report>>

NextWeb ==
    \/ Tick
    \/ \E h \in Handlers, keywordsOnly \in BOOLEAN : Receive(h, keywordsOnly)
    \/ \E h \in Handlers : Fail(h)
    \/ \E h \in Handlers : WriteReport(h)
    \/ \E h \in Handlers : Store(h)

SpecWeb == InitWeb /\ [][NextWeb]_vars

(***************************************************************************)
(* verify_password and require_auth (web_app.py, lines 35-58).             *)
(***************************************************************************)
\* what verify_password returns: True, the username, or False
ReturnedTrue == [kind |-> "true", user |-> ""]

ReturnedUser(username) == [kind |-> "user", user |-> username]

ReturnedFalse == [kind |-> "false", user |-> ""]

\* lines 36-51
verify_password(st, username, password) ==
    IF ~st.auth_enabled THEN ReturnedTrue
    ELSE IF username = st.auth_username /\ password = st.auth_password
    THEN ReturnedUser(username)
    ELSE IF st.auth_password = "" THEN ReturnedFalse
    ELSE ReturnedFalse

\* a route under require_auth (lines 54-58): login_required calls
\* verify_password when auth_enabled was set at start, and answers 401 for
\* False; the view itself otherwise
RequireAuth(st, cr) ==
    IF st.auth_enabled
    THEN (IF verify_password(st, cr.username, cr.password) # ReturnedFalse
          THEN "accepted" ELSE "rejected")
    ELSE "accepted"

InitAuth ==
    /\ authSettings \in AuthSettings
    /\ route = "none"
    /\ credentials = NoCredentials
    /\ verdict = "none"
    /\ IdleExtract
    /\ IdleGen
    /\ IdleTools
    /\ IdleVal
    /\ IdleExport
    /\ IdleApp
    /\ IdleWeb
    /\ IdleParse

\* a request for route r arrives with credentials cr
HandleRequest(r, cr) ==
    /\ verdict = "none"
    /\ route' = r
    /\ credentials' = cr
    /\ verdict' = IF r = "/health" THEN "accepted" ELSE RequireAuth(authSettings, cr)
    /\ UNCHANGED authSettings
    /\ UNCHANGED <<extractVars, genVars, toolVars, valVars, exportVars, appVars, webVars, parseVars>>

NextAuth == \E r \in Routes, cr \in Credentials : HandleRequest(r, cr)

SpecAuth == InitAuth /\ [][NextAuth]_vars

(***************************************************************************)
(* parse_multiple_pages (website_parser.py, lines 134-152).                *)
(***************************************************************************)
\* what parse_url returns for url, as far as its caller can tell pages apart
ParsedPage(url) == [url |-> url]

\* OnParseError leaving parse_multiple_pages with the exception
OnParseErrorRaise(at) == [pc |-> "raised", position |-> at]

\* the except clause of lines 149-151: log, continue with the next URL
OnParseError(at) == [pc |-> "loop", position |-> at + 1]

InitParse ==
    /\ urls \in UrlLists(MaxUrls)
    /\ parsePc = "loop"
    /\ position = 1
    /\ fetched = << >>
    /\ pages = << >>
    /\ IdleExtract
    /\ IdleGen
    /\ IdleTools
    /\ IdleVal
    /\ IdleExport
    /\ IdleApp
    /\ IdleWeb
    /\ IdleAuth

\* one turn of the loop: parse_url(url) returns a page, or raises
ParseOne(ok) ==
    /\ parsePc = "loop"
    /\ position <= Len(urls)
    /\ fetched' = Append(fetched, ok)
    /\ IF ok
       THEN /\ pages' = Append(pages, ParsedPage(urls[position]))
            /\ position' = position + 1
            /\ UNCHANGED parsePc
       ELSE /\ parsePc' = OnParseError(position).pc
            /\ position' = OnParseError(position).position
            /\ UNCHANGED pages
    /\ UNCHANGED urls
    /\ UNCHANGED <<extractVars, genVars, toolVars, valVars, exportVars, appVars, webVars, authVars>>

\* the loop is over: return results
ReturnPages ==
    /\ parsePc = "loop"
    /\ position > Len(urls)
    /\ parsePc' = "returned"
    /\ UNCHANGED <<urls, position, fetched, pages>>
    /\ UNCHANGED <<extractVars, genVars, toolVars, valVars, exportVars, appVars, webVars, authVars>>

NextParse == (\E ok \in BOOLEAN : ParseOne(ok)) \/ ReturnPages

SpecParse == InitParse /\ [][NextParse]_vars

(***************************************************************************)
(* GoogleAdsValidator.truncate_headline / truncate_description             *)
(* (validators.py, lines 98-110), applied to an ad text and to its result. *)
(***************************************************************************)
Ellipsis == <<".", ".", ".">>

\* truncate_headline keeping HEADLINE_MAX_LENGTH characters before the marker
truncate_headline_late(headline) ==
    IF Len(headline) <= HEADLINE_MAX_LENGTH THEN headline
    ELSE Prefix(headline, HEADLINE_MAX_LENGTH) \o Ellipsis

truncate_headline(headline) ==
    IF Len(headline) <= HEADLINE_MAX_LENGTH THEN headline
    ELSE Prefix(headline, HEADLINE_MAX_LENGTH - 3) \o Ellipsis

truncate_description(description) ==
    IF Len(description) <= DESCRIPTION_MAX_LENGTH THEN description
    ELSE Prefix(description, DESCRIPTION_MAX_LENGTH - 3) \o Ellipsis

TruncateField(field, t) ==
    IF field = "headline" THEN truncate_headline(t) ELSE truncate_description(t)

\* validate_headline taking a headline of HEADLINE_MAX_LENGTH characters for
\* too long
validate_headline_strict(headline) ==
    IF headline = << >> THEN [valid |-> FALSE, message |-> "empty"]
    ELSE IF Len(headline) >= HEADLINE_MAX_LENGTH THEN [valid |-> FALSE, message |-> "too long"]
    ELSE [valid |-> TRUE, message |-> "OK"]

\* lines 15-29
validate_headline(headline) ==
    IF headline = << >> THEN [valid |-> FALSE, message |-> "empty"]
    ELSE IF Len(headline) > HEADLINE_MAX_LENGTH THEN [valid |-> FALSE, message |-> "too long"]
    ELSE [valid |-> TRUE, message |-> "OK"]

\* lines 31-45
validate_description(description) ==
    IF description = << >> THEN [valid |-> FALSE, message |-> "empty"]
    ELSE IF Len(description) > DESCRIPTION_MAX_LENGTH
    THEN [valid |-> FALSE, message |-> "too long"]
    ELSE [valid |-> TRUE, message |-> "OK"]

ValidateField(field, t) ==
    IF field = "headline" THEN validate_headline(t) ELSE validate_description(t)

InitTruncate ==
    /\ adField \in AdFields
    /\ adText \in AdTexts(LimitOf(adField) + MaxOver)
    /\ truncOnce = NotTruncated
    /\ truncTwice = NotTruncated
    /\ validated = NotValidated
    /\ IdleExtract
    /\ IdleGen
    /\ IdleTools
    /\ IdleExport
    /\ IdleApp
    /\ IdleWeb
    /\ IdleAuth
    /\ IdleParse

\* the caller truncates the text
Truncate ==
    /\ truncOnce = NotTruncated
    /\ truncOnce' = TruncateField(adField, adText)
    /\ UNCHANGED <<adField, adText, truncTwice, validated>>
    /\ UNCHANGED <<extractVars, genVars, toolVars, exportVars, appVars, webVars, authVars, parseVars>>

\* the caller truncates the truncated text
TruncateAgain ==
    /\ truncOnce # NotTruncated
    /\ truncTwice = NotTruncated
    /\ truncTwice' = TruncateField(adField, truncOnce)
    /\ UNCHANGED <<adField, adText, truncOnce, validated>>
    /\ UNCHANGED <<extractVars, genVars, toolVars, exportVars, appVars, webVars, authVars, parseVars>>

\* the caller validates the truncated text
Validate ==
    /\ truncOnce # NotTruncated
    /\ validated = NotValidated
    /\ validated' = ValidateField(adField, truncOnce)
    /\ UNCHANGED <<adField, adText, truncOnce, truncTwice>>
    /\ UNCHANGED <<extractVars, genVars, toolVars, exportVars, appVars, webVars, authVars, parseVars>>

NextTruncate == Truncate \/ TruncateAgain \/ Validate

SpecTruncate == InitTruncate /\ [][NextTruncate]_vars

(***************************************************************************)
(* Properties of the extraction (SpecExtract).                             *)
(***************************************************************************)
\* the backend response the extraction ran on
Raw == pre \o body \o post

Braces == {"{", "}"}

NoBraces(s) == \A k \in 1..Len(s) : s[k] \notin Braces

\* the pairs (i, j) with s[i] = "{" before s[j] = "}"
BracePairs(s) ==
    { ij \in (1..Len(s)) \X (1..Len(s)) : ij[1] < ij[2] /\ s[ij[1]] = "{" /\ s[ij[2]] = "}" }

\* the valid JSON objects that s holds between brace-free prose
ProseSpans(s) ==
    { ij \in BracePairs(s) :
        /\ NoBraces(SubSeq(s, 1, ij[1] - 1))
        /\ NoBraces(SubSeq(s, ij[2] + 1, Len(s)))
        /\ JsonLoads(SubSeq(s, ij[1], ij[2])).ok }

\* the valid JSON objects of s when s has a single "{" ... "}" pair
LonePairSpans(s) ==
    { ij \in BracePairs(s) : BracePairs(s) = {ij} /\ JsonLoads(SubSeq(s, ij[1], ij[2])).ok }

OneSpan(s) == ProseSpans(s) \cup LonePairSpans(s)

ParsesAsWhole(s) == JsonLoads(Strip(StripFences(s))).ok

IsFenced == pre \in (JsonFencePrefixes \cup PlainFencePrefixes) /\ post \in FenceSuffixes

Done == extracted # NotExtracted

\* C2: for every valid JSON text t, the extraction of t inside ```json ... ```
\* fences and inside plain ``` ... ``` fences gives the value that the
\* extraction of t alone gives.
C2_FencedSameAsBare ==
    (Done /\ IsFenced /\ JsonLoads(body).ok)
        => /\ extracted.status = "ok"
           /\ bare.status = "ok"
           /\ extracted.value = bare.value

\* a non-object JSON value came back out of json fences
C2_Witness ==
    /\ Done /\ JsonLoads(body).ok
    /\ pre \in JsonFencePrefixes /\ post \in FenceSuffixes
    /\ extracted.status = "ok" /\ extracted.value[1] = "num"

\* C3: a response that does not parse as a whole after fence stripping but
\* holds exactly one {...} span of valid JSON inside prose yields that
\* span's parsed object, not an error.
C3_SpanRecovered ==
    (Done /\ ~ParsesAsWhole(Raw))
        => \A ij \in OneSpan(Raw) :
              /\ extracted.status = "ok"
              /\ extracted.value = JsonLoads(SubSeq(Raw, ij[1], ij[2])).val

\* a non-empty object was recovered from prose by the second stage
C3_Witness ==
    /\ Done /\ ~ParsesAsWhole(Raw) /\ OneSpan(Raw) # {}
    /\ pre \in ProsePrefixes
    /\ extracted.stage = "regex" /\ extracted.value[2] # << >>

\* C4: an unparsable response without a {...} span makes generate_json raise,
\* and the error carries a prefix, at most 200 characters long, of the
\* original backend response, also when the response began with a fence.
C4_ErrorCarriesRawPrefix ==
    (Done /\ ~ParsesAsWhole(Raw) /\ BracePairs(Raw) = {})
        => /\ extracted.status = "ValueError"
           /\ Len(extracted.msg) <= ErrorPrefixLen
           /\ IsPrefixOf(extracted.msg, Raw)

(***************************************************************************)
(* Properties of the generation adapter (Spec).                            *)
(***************************************************************************)
JsonOps == Ops \ {"generate"}

\* C1: generate_json calls generate with json_mode on first; it calls it
\* once more, with json_mode off and the same prompt and system prompt, if
\* and only if the first call raised; a failure of the second call reaches
\* the caller, and there is never a third call.
C1_JsonModeRetry ==
    op \in JsonOps =>
        /\ Len(genCalls) \in 1..2
        /\ Len(genOutcomes) <= Len(genCalls)
        /\ genCalls[1].json_mode
        /\ (Len(genCalls) = 2) <=> (Len(genOutcomes) >= 1 /\ genOutcomes[1].raised)
        /\ Len(genCalls) = 2 =>
              /\ ~genCalls[2].json_mode
              /\ genCalls[2].prompt = genCalls[1].prompt
              /\ genCalls[2].system = genCalls[1].system
        /\ (Len(genOutcomes) = 2 /\ genOutcomes[2].raised) =>
              /\ pc = "done"
              /\ jsonResult.status = "error"
              /\ jsonResult.error = genOutcomes[2].err

\* both calls of generate were made and both raised
C1_Witness ==
    /\ op \in JsonOps /\ pc = "done"
    /\ Len(genCalls) = 2 /\ Len(genOutcomes) = 2
    /\ genOutcomes[1].raised /\ genOutcomes[2].raised

\* value of key in a JSON object
Field(obj, key) ==
    LET pairs == obj[2]
        i == CHOOSE k \in 1..Len(pairs) : pairs[k][1] = key
    IN  pairs[i][2]

\* the maximal runs of non-whitespace characters of s, as index pairs
Runs(s) ==
    { r \in (1..Len(s)) \X (1..Len(s)) :
        /\ r[1] <= r[2]
        /\ \A k \in r[1]..r[2] : s[k] \notin Whitespace
        /\ r[1] = 1 \/ s[r[1] - 1] \in Whitespace
        /\ r[2] = Len(s) \/ s[r[2] + 1] \in Whitespace }

LongRuns(s) == { r \in Runs(s) : r[2] - r[1] + 1 > 3 }

ProductName == IF fab.has_name THEN fab.product_name ELSE << >>

FallbackTaken == pc = "done" /\ op = "generate_keywords" /\ jsonResult.status = "error"

C6_AdsFailurePropagates ==
    (pc = "done" /\ op = "generate_google_ads" /\ jsonResult.status = "error")
        => /\ result.status = "error"
           /\ result.error = jsonResult.error
           /\ result.value = <<"none">>

\* ad generation failed in the extraction
C6_Witness ==
    /\ pc = "done" /\ op = "generate_google_ads"
    /\ jsonResult.status = "error" /\ jsonResult.error.type = "ValueError"
    /\ result.status = "error"

(***************************************************************************)
(* Properties of the ad-platform tool layer (SpecTools).                   *)
(***************************************************************************)
ToolDone == toolPc = "done" /\ tool # "none"

LastClientCall == clientLog[Len(clientLog)]

\* C7: whatever tool of the registry is called and however its client call
\* ends, the tool returns an envelope with a boolean success field; when the
\* client call raises, the envelope is {success: false, error: message}, and
\* no exception leaves the tool.
C7_ToolsReturnEnvelopes ==
    /\ ~escaped
    /\ ToolDone =>
          /\ "success" \in DOMAIN envelope
          /\ envelope.success \in BOOLEAN
    /\ (ToolDone /\ clientLog # << >> /\ LastClientCall.raised) =>
          /\ DOMAIN envelope = {"success", "error"}
          /\ envelope.success = FALSE
          /\ envelope.error = LastClientCall.msg

\* the client call of a tool raised
C7_Witness ==
    /\ ToolDone /\ tool = "get_campaign_performance"
    /\ clientLog # << >> /\ LastClientCall.raised
    /\ envelope.success = FALSE

\* the keys of an envelope that do not name its result
MetaKeys == {"success", "count", "date_range", "recommendation"}

SingleRecordTools == {"get_account_info", "get_account_summary", "get_campaign_performance"}

Successful == ToolDone /\ envelope.success

\* C8 as claimed: every successful envelope carries success = true, a named
\* result collection and a count equal to the number of rows of it.
C8_EveryEnvelopeCounted ==
    Successful =>
        /\ "count" \in DOMAIN envelope
        /\ \E k \in DOMAIN envelope \ MetaKeys : envelope.count = Len(envelope[k])

\* C8, amended: every successful envelope carries success = true and one
\* named result; for each tool but get_account_info, get_account_summary and
\* get_campaign_performance the result is the collection of the rows that the
\* client returned, with a count equal to their number; the envelopes of
\* those three tools carry a single record and no count.
C8_CountedUnlessSingleRecord ==
    Successful =>
        /\ Cardinality(DOMAIN envelope \ MetaKeys) = 1
        /\ IF tool \in SingleRecordTools
           THEN "count" \notin DOMAIN envelope
           ELSE /\ "count" \in DOMAIN envelope
                /\ envelope.count = Len(LastClientCall.rows)
                /\ \A k \in DOMAIN envelope \ MetaKeys : envelope[k] = LastClientCall.rows

\* a collection of two rows came back counted
C8_Witness ==
    /\ Successful /\ tool = "get_keywords"
    /\ Len(LastClientCall.rows) = 2
    /\ envelope.count = 2 /\ Len(envelope.keywords) = 2

\* the rule table of the router, on the lower-cased request r
RuleHolds(k, r) ==
    IF k = 1 THEN Contains(r, WAccounts) \/ Contains(r, WListAccounts)
    ELSE IF k = 2 THEN Contains(r, WAccountSummary) \/ Contains(r, WOverview)
    ELSE IF k = 3 THEN Contains(r, WCampaigns) /\ ~Contains(r, WPerformance)
    ELSE IF k = 4 THEN Contains(r, WKeywords)
    ELSE IF k = 5 THEN Contains(r, WSearchTerms) \/ Contains(r, WSearchQueries)
    ELSE IF k = 6 THEN Contains(r, WHighCost) \/ Contains(r, WExpensive)
    ELSE IF k = 7 THEN Contains(r, WDisapproved) \/ Contains(r, WRejected)
    ELSE IF k = 8 THEN Contains(r, WGeographic) \/ Contains(r, WLocation)
    ELSE Contains(r, WDevice)

AsksForQuality(r) == Contains(r, WLowQuality) \/ Contains(r, WQualityScore)

RuleTool(k, r) ==
    IF k = 1 THEN "list_accounts"
    ELSE IF k = 2 THEN "get_account_summary"
    ELSE IF k = 3 THEN "get_campaigns"
    ELSE IF k = 4 THEN (IF AsksForQuality(r) THEN "diagnose_low_quality_scores"
                        ELSE IF Contains(r, WNegative) THEN "get_negative_keywords"
                        ELSE "get_keywords")
    ELSE IF k = 5 THEN "get_search_terms"
    ELSE IF k = 6 THEN "diagnose_high_cost_campaigns"
    ELSE IF k = 7 THEN "find_disapproved_ads"
    ELSE IF k = 8 THEN "get_geographic_performance"
    ELSE "get_device_performance"

RulesHolding(r) == { k \in 1..9 : RuleHolds(k, r) }

\* the first rule from rule k on that holds for r, 0 when none does
RECURSIVE FirstFrom(_, _)
FirstFrom(k, r) ==
    IF k > 9 THEN 0 ELSE IF RuleHolds(k, r) THEN k ELSE FirstFrom(k + 1, r)

Routed == entry = "nl"

\* the request names a rule: the tool of the first such rule, and no other,
\* is invoked
FirstMatchWins ==
    Routed =>
        LET r == Lower(request)
            first == FirstFrom(1, r)
        IN  first # 0 => invoked = << RuleTool(first, r) >>

\* C9 as claimed: the first rule of the table that holds decides the one
\* tool invoked, and every request with "keywords" and "low quality" or
\* "quality score" goes to diagnose_low_quality_scores.
C9_QualityAlwaysDiagnosed ==
    /\ FirstMatchWins
    /\ Routed =>
          LET r == Lower(request)
          IN  (Contains(r, WKeywords) /\ AsksForQuality(r))
                  => invoked = << "diagnose_low_quality_scores" >>

\* C9, amended: the first rule of the table that holds decides the one tool
\* invoked; a request with "keywords" and "low quality" or "quality score"
\* goes to diagnose_low_quality_scores, not to get_keywords, when none of the
\* three rules before the keyword rule holds for it.
C9_FirstMatchWins ==
    /\ FirstMatchWins
    /\ Routed =>
          LET r == Lower(request)
          IN  (Contains(r, WKeywords) /\ AsksForQuality(r)
                  /\ \A k \in {1, 2, 3} : ~RuleHolds(k, r))
                  => invoked = << "diagnose_low_quality_scores" >>

\* a request for keywords of low quality that also names another rule
C9_Witness ==
    /\ Routed /\ invoked = << "diagnose_low_quality_scores" >>
    /\ Contains(Lower(request), WKeywords) /\ Contains(Lower(request), WLowQuality)
    /\ request # Lower(request)
    /\ Cardinality(RulesHolding(Lower(request))) > 1

RECURSIVE Range(_)
Range(seq) == IF seq = << >> THEN {} ELSE {Head(seq)} \cup Range(Tail(seq))

\* C10: a request that no rule matches invokes no tool and issues no remote
\* query; the answer has success = false, an error message and the list of
\* the available tools, which names the tools of the registry.
C10_UnrecognizedListsRegistry ==
    (Routed /\ RulesHolding(Lower(request)) = {})
        => /\ invoked = << >>
           /\ clientLog = << >>
           /\ envelope.success = FALSE
           /\ "error" \in DOMAIN envelope
           /\ "available_tools" \in DOMAIN envelope
           /\ Range(envelope.available_tools) = ToolRegistry

\* the part of C10 that holds: no tool, no query, the unrecognized envelope
\* with a list of registered tools
C10_UnrecognizedEnvelope ==
    (Routed /\ RulesHolding(Lower(request)) = {})
        => /\ invoked = << >>
           /\ clientLog = << >>
           /\ envelope.success = FALSE
           /\ "error" \in DOMAIN envelope
           /\ Range(envelope.available_tools) \subseteq ToolRegistry

(***************************************************************************)
(* Properties of the truncation (SpecTruncate).                            *)
(***************************************************************************)
\* C11: truncate_headline (limit 30) and truncate_description (limit 90)
\* return a text at or under the limit unchanged; for a longer text they
\* return a text of at most the limit that ends in "..."; truncating the
\* result again returns the result.
C11_TruncateIdempotent ==
    /\ truncOnce # NotTruncated =>
        /\ Len(adText) <= LimitOf(adField) => truncOnce = adText
        /\ Len(adText) > LimitOf(adField) =>
            /\ Len(truncOnce) <= LimitOf(adField)
            /\ EndsWith(truncOnce, Ellipsis)
    /\ truncTwice # NotTruncated => truncTwice = truncOnce

\* an oversized headline that does not end in dots was truncated twice
C11_Witness ==
    /\ adField = "headline"
    /\ Len(adText) > HEADLINE_MAX_LENGTH
    /\ ~EndsWith(adText, Ellipsis)
    /\ truncTwice # NotTruncated
    /\ truncOnce # adText

(***************************************************************************)
(* Properties of the export (SpecExport).                                  *)
(***************************************************************************)
\* the cells written under column col, over all sheets
CellsOf(col) ==
    UNION { { sheets[n][i][col] :
                i \in { j \in 1..Len(sheets[n]) : col \in DOMAIN sheets[n][j] } } :
            n \in DOMAIN sheets }

\* the keywords that can be read back: the Keyword cells and the parts of
\* the joined Keywords cells
KeywordsRead ==
    CellsOf("Keyword") \cup UNION { {c[i] : i \in 1..Len(c)} : c \in CellsOf("Keywords") }

Readable(v, cols) == v \in {"", Missing} \/ \E col \in cols : v \in CellsOf(col)

AdReadable(ad) ==
    /\ Readable(ad.type, {"Type"})
    /\ \A i \in 1..Len(ad.headlines) : Readable(ad.headlines[i], {"Headline"})
    /\ \A i \in 1..Len(ad.descriptions) : Readable(ad.descriptions[i], {"Description"})
    /\ \A i \in 1..Len(ad.paths) : Readable(ad.paths[i], {"Path 1", "Path 2"})
    /\ \A i \in 1..Len(ad.keywords) : ad.keywords[i] \in KeywordsRead
    /\ Readable(ad.notes, {"Notes"})

KeywordReadable(kw) ==
    /\ Readable(kw.keyword, {"Keyword"})
    /\ Readable(kw.match_type, {"Match Type"})
    /\ Readable(kw.search_volume, {"Search Volume"})
    /\ Readable(kw.commercial_intent, {"Commercial Intent"})
    /\ Readable(kw.category, {"Category"})

StatementReadable(st) ==
    /\ Readable(st.feature, {"Feature"})
    /\ Readable(st.advantage, {"Advantage"})
    /\ Readable(st.benefit, {"Benefit"})
    /\ Readable(st.bab_format, {"BAB Format"})

AdsKept == \A i \in 1..Len(adsData) : AdReadable(adsData[i])

KeywordsKept == \A i \in 1..Len(keywordsData.items) : KeywordReadable(keywordsData.items[i])

StatementsKept ==
    \A i \in 1..Len(fabData.fab_statements) : StatementReadable(fabData.fab_statements[i])

\* C12: every field of every keyword record, of every FAB statement and of
\* every ad variant (type, every headline, every description, every path,
\* every keyword, notes) given to an export operation can be read back from
\* the cells of the sheets it wrote, export_complete_report included.
C12_ExportKeepsEveryField ==
    /\ exportOp \in {"export_google_ads", "export_complete_report"} => AdsKept
    /\ exportOp \in {"export_keywords", "export_complete_report"} => KeywordsKept
    /\ exportOp \in {"export_fab_analysis", "export_complete_report"} => StatementsKept

(***************************************************************************)
(* Properties of generate and its backend requests (Spec).                 *)
(***************************************************************************)
\* generate was invoked by the caller and ended
GenerateEnded == pc = "done" /\ op = "generate"

PreferredRaised == replies # << >> /\ replies[1].kind = "raise"

Wraps(msg, m) == \E i \in 1..Len(msg) : msg[i] = m

\* one more request went to the hardcoded alternative model and decided the
\* outcome of generate
RetriedOnFallbackModel ==
    /\ Len(requests) = 2
    /\ requests[2].model = GeminiFallbackModel
    /\ replies[2].kind = "text" => result = Success(<<"text", replies[2].text>>, "backend")
    /\ replies[2].kind = "raise" =>
        /\ result.status = "error"
        /\ Wraps(result.error.msg, replies[1].msg)

\* the failure of the only request is the failure of generate
FailedWithoutRetry ==
    /\ Len(requests) = 1
    /\ result = Failure([type |-> "BackendError", msg |-> <<replies[1].msg>>])

\* C13 as stated: whenever the backend call of the preferred model raises,
\* generate sends exactly one more request, to the hardcoded fallback model,
\* returns its text if it succeeds and otherwise fails with an error that
\* wraps the message of the first failure.
C13_FallbackModelRetry == GenerateEnded /\ PreferredRaised => RetriedOnFallbackModel

\* C13: with the google provider, a raising backend call of the preferred
\* model is followed by exactly one request to the hardcoded fallback model,
\* whose text is returned, or whose failure makes generate fail with an
\* error wrapping the message of the first failure; with every other
\* provider the first failure ends generate after its single request.  No
\* invocation of generate issues more than two requests.
C13_GoogleFallbackModelRetry ==
    GenerateEnded =>
        /\ Len(requests) \in 1..2
        /\ PreferredRaised /\ provider = "google" => RetriedOnFallbackModel
        /\ PreferredRaised /\ provider # "google" => FailedWithoutRetry
        /\ ~PreferredRaised => Len(requests) = 1

\* both models of the google provider failed, with different messages
C13_Witness ==
    /\ GenerateEnded
    /\ provider = "google"
    /\ Len(replies) = 2
    /\ replies[1].kind = "raise"
    /\ replies[2].kind = "raise"
    /\ replies[1].msg # replies[2].msg

\* C14: when the backend answers with an empty response or a malformed
\* response structure, generate fails and returns no text to the caller.
C14_EmptyResponseFails ==
    GenerateEnded /\ replies[Len(replies)].kind \in {"empty", "malformed"} =>
        result.status = "error"

\* C15: every backend request of an invocation, the request to the fallback
\* model included, carries the temperature the caller gave.
C15_TemperaturePassedThrough ==
    \A i \in 1..Len(requests) : requests[i].temperature = genCalls[1].temperature

HasJsonInstruction(text) ==
    \E i \in 1..Len(text) : text[i] \in {JsonInstruction, GeminiJsonInstruction}

\* C16: a request of generate called with json_mode carries the native JSON
\* response format (openai, groq) or a prompt text with a JSON-only
\* instruction appended (google, anthropic, ollama); a request of generate
\* called without json_mode carries neither.
C16_JsonModeHonoured ==
    op = "generate" =>
        \A i \in 1..Len(requests) :
            IF genCalls[1].json_mode
            THEN IF provider \in {"openai", "groq"}
                 THEN requests[i].json_format
                 ELSE HasJsonInstruction(requests[i].text)
            ELSE ~requests[i].json_format /\ ~HasJsonInstruction(requests[i].text)

(***************************************************************************)
(* Properties of operations that follow one another (SpecRepeat).          *)
(***************************************************************************)
\* the requests of the invocation that went to a preferred model
PreferredRequests == { i \in 1..Len(requests) : requests[i].temperature # NoTemperature }

FallbackRequests == { i \in 1..Len(requests) : requests[i].temperature = NoTemperature }

\* C19: every invocation of generate issues at least one backend request,
\* also when the invocation before it had the same arguments, and at most
\* two, one to the preferred and one to the fallback model; every operation
\* built on generate_json makes at most two calls of generate, each with one
\* request to the preferred model and at most one to the fallback model, and
\* nothing is retried beyond that.
C19_RequestsPerInvocation ==
    /\ Len(genCalls) <= 2
    /\ Cardinality(PreferredRequests) <= Len(genCalls)
    /\ Cardinality(FallbackRequests) <= Cardinality(PreferredRequests)
    /\ op = "generate" => Len(genCalls) <= 1
    /\ pc = "done" =>
        /\ Cardinality(PreferredRequests) = Len(genCalls)
        /\ Len(genOutcomes) = Len(genCalls)
        /\ Len(requests) >= 1

\* generate was invoked twice with the same arguments and the second
\* invocation ended after requests of its own
C19_Witness ==
    /\ pc = "done"
    /\ op = "generate"
    /\ invocations = 2
    /\ sameAsPrevious
    /\ Len(requests) = 2

(***************************************************************************)
(* Properties of the full run, the construction of the adapter and the     *)
(* settings (SpecRun).                                                     *)
(***************************************************************************)
StepNames == [i \in 1..Len(steps) |-> steps[i].name]

\* the steps of a full run, the construction of the adapter being the
\* first statement of the analyze step
RunOrder == <<"fetch", "construct", "analyze", "keywords", "ads", "export">>

StepsOf(name) == { i \in 1..Len(steps) : steps[i].name = name }

\* the keywords step fell back and what it gave went to the later steps
FallbackKeywordsUsed ==
    \A i \in StepsOf("keywords") :
        steps[i].took = "fallback" =>
            /\ steps[i].gave = FallbackKeywords(Gave("analyze"))
            /\ \A j \in StepsOf("ads") :
                    steps[j].took = Prefix(KeywordsList(steps[i].gave), AdsKeywordsLimit)
            /\ \A j \in StepsOf("export") : steps[j].took = steps[i].gave

C17_MisconfigurationFailsFast ==
    /\ adapter # NoAdapter => adapter.provider \in Providers /\ adapter.has_key
    /\ \A i \in StepsOf("analyze") \cup StepsOf("keywords") \cup StepsOf("ads") :
            adapter.provider \in Providers /\ adapter.has_key

\* C20: settings.ai_provider and settings.ai_model are what was loaded at
\* start, whatever operations ran, and an adapter constructed without
\* explicit arguments has the provider and model loaded at start.
C20_SettingsReadOnly ==
    /\ settings.ai_provider = loaded.ai_provider
    /\ settings.ai_model = loaded.ai_model
    /\ adapter # NoAdapter /\ runArgs.ai_provider = None =>
            adapter.provider = loaded.ai_provider
    /\ adapter # NoAdapter /\ runArgs.ai_model = None => adapter.model = loaded.ai_model


(***************************************************************************)
(* Properties of the keyword records that are written (SpecExport).        *)
(***************************************************************************)
MatchTypes == {"broad", "phrase", "exact", "modified_broad"}

Categories == {"informational", "transactional", "navigational"}

\* the rows of keyword records that the export operation wrote
KeywordRecordRows ==
    IF exportOp = "export_keywords" THEN sheets["Sheet1"]
    ELSE IF exportOp = "export_complete_report" THEN sheets["Keywords"]
    ELSE << >>

\* C21: every keyword record written by the exporter has its match type
\* among broad, phrase, exact, modified_broad and its category among
\* informational, transactional, navigational, whatever values were given.
C21_WrittenKeywordsEnumerated ==
    \A i \in 1..Len(KeywordRecordRows) :
        /\ KeywordRecordRows[i]["Match Type"] \in MatchTypes
        /\ KeywordRecordRows[i]["Category"] \in Categories


(***************************************************************************)
(* Properties of what generate_json and the domain operations return       *)
(* (Spec).                                                                 *)
(***************************************************************************)
KeyFabStatements == <<"f", "a", "b", "_", "s", "t", "a", "t", "e", "m", "e", "n", "t", "s">>

IsObject(v) == v[1] = "obj"

HasKey(obj, key) == \E k \in 1..Len(obj[2]) : obj[2][k][1] = key

AnalysisReturned == pc = "done" /\ op = "analyze_with_fab" /\ result.status = "ok"

\* C22: an analysis that analyze_with_fab returns is an object whose
\* fab_statements is a sequence with at least one statement.
C22_AnalysisHasStatements ==
    AnalysisReturned =>
        /\ IsObject(result.value)
        /\ HasKey(result.value, KeyFabStatements)
        /\ Field(result.value, KeyFabStatements)[1] = "arr"
        /\ Field(result.value, KeyFabStatements)[2] # << >>


(***************************************************************************)
(* Properties of the ad texts that are written (SpecExport).               *)
(***************************************************************************)
AdsWritten == exportOp \in {"export_google_ads", "export_complete_report"}

\* the texts of field f over the ads given, in order
GivenTexts(f) == Flatten([i \in 1..Len(adsData) |-> adsData[i][f]])

Column(rows, col) == [i \in 1..Len(rows) |-> rows[i][col]]

\* the rows of a length sheet mark the texts longer than limit, and no other
MarkedBy(rows, col, limit) ==
    \A i \in 1..Len(rows) :
        /\ rows[i]["Length"] = ToString(Len(rows[i][col]))
        /\ rows[i]["Status"] = "TOO LONG" <=> Len(rows[i][col]) > limit
        /\ rows[i]["Status"] \in {"OK", "TOO LONG"}

\* the sheets that hold ads
AdSheets == DOMAIN sheets \cap {"All Ads", "Headlines", "Descriptions", "Google Ads"}

\* the cells written under column col of the sheets that hold ads
AdCells(col) ==
    UNION { { sheets[n][i][col] :
                i \in { j \in 1..Len(sheets[n]) : col \in DOMAIN sheets[n][j] } } :
            n \in AdSheets }

PathCells == AdCells("Path 1") \cup AdCells("Path 2")

\* no cell of an ad text holds anything but a text that was given
NothingShortened ==
    AdsWritten =>
        /\ AdCells("Headline") \subseteq Range(GivenTexts("headlines"))
        /\ AdCells("Description") \subseteq Range(GivenTexts("descriptions"))
        /\ PathCells \subseteq Range(GivenTexts("paths")) \cup {""}

\* the Headlines and Descriptions sheets hold every text given, marked
LengthSheets ==
    exportOp = "export_google_ads" =>
        /\ Column(sheets["Headlines"], "Headline") = GivenTexts("headlines")
        /\ Column(sheets["Descriptions"], "Description") = GivenTexts("descriptions")
        /\ MarkedBy(sheets["Headlines"], "Headline", HEADLINE_MAX_LENGTH)
        /\ MarkedBy(sheets["Descriptions"], "Description", DESCRIPTION_MAX_LENGTH)

\* the paths of an ad that has a headline and a description: the first two
\* in export_google_ads, the first in export_complete_report
PathsDue(ad) ==
    IF ad.headlines = << >> \/ ad.descriptions = << >> THEN {}
    ELSE Range(Prefix(ad.paths, IF exportOp = "export_google_ads" THEN 2 ELSE 1))

KeywordsOnlyOrder == <<"fetch", "construct", "analyze", "keywords", "export">>

\* C24: in a keywords-only run, from the command or from POST /api/analyze,
\* the step after keyword generation is the export of the keywords alone
\* and the last: ad generation and export_complete_report are never
\* invoked, and no entry of session_data is stored.
C24_KeywordsOnlyEndsEarly ==
    runArgs.keywords_only =>
        /\ StepNames = Prefix(KeywordsOnlyOrder, Len(steps))
        /\ StepsOf("ads") = {}
        /\ \A i \in StepsOf("export") :
              /\ steps[i].gave = "export_keywords"
              /\ steps[i].took = Gave("keywords")
        /\ report \in {"none", "export_keywords"}
        /\ runPc = "done" => report = "export_keywords"
        /\ sessionData = NoSessions

\* a keywords-only request of the web front-end was answered with success
C24_Witness ==
    /\ process = "web"
    /\ runArgs.keywords_only
    /\ runPc = "done"
    /\ report = "export_keywords"
    /\ Len(steps) = Len(KeywordsOnlyOrder)
    /\ sessionData = NoSessions


(***************************************************************************)
(* Properties of the session cache (SpecWeb).                              *)
(***************************************************************************)
FullAnalyses == { c \in completed : c.type = "complete" }

\* the entries of session_data, over the server processes
SessionEntries == UNION { { <<p, e>> : e \in sessionData[p] } : p \in ServerProcesses }

\* C28: after n completed full analyses session_data holds n entries, and
\* the filepath of each entry names a report file that the analysis of the
\* entry wrote and no other analysis did.
C28_EveryAnalysisKeepsItsEntry ==
    /\ Cardinality(SessionEntries) = Cardinality(FullAnalyses)
    /\ \A pe \in SessionEntries :
          \E f \in files : f.name = pe[2].filepath /\ f.writers = {pe[2].request}


(***************************************************************************)
(* Properties of the authentication (SpecAuth).                            *)
(***************************************************************************)
Protected == verdict # "none" /\ route # "/health"

CredentialsMatch ==
    /\ credentials.username = authSettings.auth_username
    /\ credentials.password = authSettings.auth_password

\* C25: with authentication enabled, a request for a protected route is
\* accepted only when its username and password equal the configured ones,
\* and never when the configured password is empty; with authentication
\* disabled every request is accepted.
C25_EmptyPasswordAcceptsNothing ==
    Protected =>
        IF authSettings.auth_enabled
        THEN /\ verdict = "accepted" => CredentialsMatch
             /\ authSettings.auth_password = "" => verdict = "rejected"
        ELSE verdict = "accepted"


JsonReturned == pc = "done" /\ op \in JsonOps /\ jsonResult.status = "ok"

\* C26: every value that generate_json returns to analyze_with_fab,
\* generate_keywords or generate_google_ads is a JSON object.
C26_JsonResultIsObject ==
    JsonReturned => IsObject(jsonResult.value) /\ IsObject(result.value)


\* the calls of generate that returned a text
TextReturns == { i \in 1..Len(genOutcomes) : ~genOutcomes[i].raised }

ParseFailed == op \in JsonOps /\ jsonResult.status = "error" /\ jsonResult.error.type = "ValueError"

\* C27: once a call of generate inside generate_json has returned a text,
\* generate_json makes no further call and no further backend request is
\* issued, whether the text parses at the first stage, at the regex stage
\* or at neither: the call that returned is the last one, and a second call
\* is there only after a first that raised.
C27_NoRequestAfterText ==
    op \in JsonOps =>
        /\ \A i \in TextReturns :
              /\ i = Len(genCalls)
              /\ pc = "done"
              /\ \A k \in 1..(i - 1) : genOutcomes[k].raised
        /\ Len(genCalls) <= 2
        /\ Len(requests) <= Len(genCalls) * (IF provider = "google" THEN 2 ELSE 1)
        /\ ParseFailed => pc = "done" /\ TextReturns = {Len(genCalls)}

\* the only text that the backend returned failed both stages, after one
\* request
C27_Witness ==
    /\ pc = "done" /\ op \in JsonOps
    /\ ParseFailed
    /\ Len(genCalls) = 1 /\ Len(requests) = 1
    /\ returned.kind = "text"


(***************************************************************************)
(* Properties of parse_multiple_pages (SpecParse).                         *)
(***************************************************************************)
\* the pages of the URLs among the first n whose parse_url returned, in order
RECURSIVE PagesOfFetched(_)
PagesOfFetched(n) ==
    IF n = 0 THEN << >>
    ELSE PagesOfFetched(n - 1) \o (IF fetched[n] THEN << ParsedPage(urls[n]) >> ELSE << >>)

\* C29: parse_multiple_pages never raises; it passes the URLs in order, one
\* parse_url each, goes on after a URL whose parse_url raised, and returns
\* the pages of exactly the URLs whose parse_url returned, in the order of
\* the input: at most as many as there are URLs, none when all failed.
C29_FailingUrlsSkipped ==
    /\ parsePc # "raised"
    /\ parsePc # "off" =>
          /\ Len(fetched) = position - 1
          /\ position <= Len(urls) + 1
          /\ pages = PagesOfFetched(Len(fetched))
          /\ Len(pages) <= Len(urls)
    /\ parsePc = "returned" =>
          /\ Len(fetched) = Len(urls)
          /\ (\A i \in 1..Len(urls) : ~fetched[i]) => pages = << >>

\* three URLs, the same one twice: the first failed, the two after it are
\* returned
C29_Witness ==
    /\ parsePc = "returned"
    /\ Len(urls) = 3 /\ urls[2] = urls[3] /\ urls[1] # urls[2]
    /\ fetched = <<FALSE, TRUE, TRUE>>
    /\ Len(pages) = 2


(***************************************************************************)
(* Properties of the validation of truncated texts (SpecTruncate).         *)
(***************************************************************************)
\* C30: for every headline and description that is not empty, the validator
\* of the field accepts what the truncation of the field returns for it.
C30_TruncatedIsValid ==
    (validated # NotValidated /\ adText # << >>) =>
        /\ validated.valid
        /\ validated.message = "OK"
        /\ validated = ValidateField(adField, TruncateField(adField, adText))

\* a headline over the limit was cut to the limit and accepted
C30_Witness ==
    /\ adField = "headline"
    /\ Len(adText) > HEADLINE_MAX_LENGTH
    /\ Len(truncOnce) = HEADLINE_MAX_LENGTH
    /\ validated.valid

=============================================================================
